---- MODULE Spec2Model ----
(***************************************************************************)
(* A model of partbuilder: the construction of a LifecycleManager (the     *)
(* part graph and its ordering, src/partbuilder/_partbuilder.py) and the   *)
(* step executor of the lifecycle (src/partbuilder/lifecycle/_runner.py).  *)
(*                                                                         *)
(* Two specifications share the variables:                                 *)
(*   SpecGraph  construction of the manager over every bounded parts       *)
(*              definition (defined names, mapping order, after lists);    *)
(*   Spec       lifecycle.execute() calls against a constructed manager.   *)
(***************************************************************************)
EXTENDS Integers, Sequences, FiniteSets, TLC

\* Bounds of the parts definitions SpecGraph explores.
MaxParts == 3
MaxEdges == 3

\* Part names, in the order Python compares them (str comparison).
NameUniverse == <<"a", "b", "c", "d", "e">>

PartNames == {NameUniverse[i] : i \in 1..MaxParts}

NameOrd(n) == CHOOSE i \in 1..Len(NameUniverse) : NameUniverse[i] = n

Range(s) == {s[i] : i \in 1..Len(s)}

\* The sequence s without its i-th element.
RemoveAt(s, i) == SubSeq(s, 1, i - 1) \o SubSeq(s, i + 1, Len(s))

\* All orders in which the names of D can be listed (keys of the parts mapping).
Orderings(D) == {s \in [1..Cardinality(D) -> D] : \A i, j \in 1..Cardinality(D) : s[i] = s[j] => i = j}

\* The names of S as a list in ascending name order.
RECURSIVE AscendingList(_)
AscendingList(S) ==
    IF S = {} THEN <<>>
    ELSE LET m == CHOOSE x \in S : \A y \in S : NameOrd(x) <= NameOrd(y)
         IN  <<m>> \o AscendingList(S \ {m})

VARIABLES
    parts_data,       \* LifecycleManager._parts_data: [order: key order, after: name -> list]
    part_names,       \* LifecycleManager._part_names
    all_parts,        \* LifecycleManager.all_parts (parts identified by name)
    after_requests,   \* LifecycleManager.after_requests
    deps,             \* part.deps of every loaded part
    sorted_parts,     \* the local sorted_parts of _sort_parts
    ctor,             \* position in LifecycleManager.__init__
    raised,           \* the exception that ended the construction / the execute() call
    generation,       \* 1: first construction, 2: construction from the re-listed input
    first_result,     \* outcome of the first construction
    used,             \* a lifecycle entry point was called on the constructed manager
    state_files,      \* part -> the steps whose state file exists in part_state_dir
    state_time,       \* part -> step -> modification time of the state file (0: no file)
    state_props,      \* part -> step -> the properties recorded in the state file
    properties,       \* part -> step -> the part's current properties that step depends on
    inputs_changed,   \* part -> step -> inputs on disk are newer than the state file
    updaters,         \* the steps for which the parts have an update_<step> function
    runs,             \* execute() calls made
    changes,          \* changes made to the configuration and to inputs on disk
    failures,         \* step bodies that have failed
    status,           \* of the last execute() call: "idle", "running", "done", "raised"
    error,            \* the exception that ended the last execute() call
    steps_were_run,   \* _Executor.steps_were_run
    cache,            \* _Executor._cache: part -> steps recorded as run
    hooks,            \* shape of the pre_hooks/post_hooks arguments of execute()
    stack,            \* the active _Executor.run calls, innermost last
    trace,            \* what the current execute() call has done so far
    request,          \* step and part_names of the current execute() call
    prev,             \* request and outcome of the execute() call before it
    changed,          \* changes made since the last execute() call began
    global_state,     \* the global state file of the work directory
    installed_files,  \* part -> what the part's build leaves at one path of its install directory
    ctl,              \* one partbuilderctl process: its arguments, its position, the two fifos
    file_list,        \* the files of a primed tree handed to elf.get_elf_files
    elf,              \* the scans of file_list and the dependency closure built from them
    lifecycles,       \* the processes inside execute() on one work directory
    env_call,        \* one build_env_for_part call: the parts' plugins and declared environment, the list returned
    library_cache,    \* the SonameCache shared by the Library objects, and the Library resolved last
    config            \* LifecycleManager._config, the PartData handle the callbacks receive

gvars == <<parts_data, part_names, all_parts, after_requests, deps, sorted_parts, ctor, raised, generation, first_result, used>>

lvars == <<state_files, state_time, state_props, properties, inputs_changed, updaters, runs, changes, failures, status, error, steps_were_run, cache, hooks, stack, trace, request, prev, changed, global_state, installed_files, ctl, file_list, elf, lifecycles, env_call, library_cache, config>>

vars == <<gvars, lvars>>

NoError == [type |-> "none", args |-> <<>>]

\* The exception classes partbuilder/errors.py defines.
ErrorClasses ==
    {"PartbuilderError", "PartbuilderException", "OsReleaseIdError", "XAttributeError",
     "XAttributeTooLongError", "MetadataExtractionError", "MissingMetadataFileError",
     "UnhandledMetadataFileTypeError", "InvalidExtractorValueError", "YamlValidationError",
     "PluginError", "PluginBaseError", "PartbuilderCommandError",
     "PartbuilderPluginCommandError", "PartbuilderPluginBuildError",
     "PartbuilderEnvironmentError", "StepHasNotRunError", "NoLatestStepError",
     "ScriptletBaseError", "ScriptletRunError", "MissingStateCleanError"}

\* `raise errors.<cls>(*args)`: the attribute lookup on the errors module comes
\* first, and fails with AttributeError for a class the module does not define.
RaiseErrorsClass(cls, args) ==
    IF cls \in ErrorClasses
    THEN [type |-> cls, args |-> args]
    ELSE [type |-> "AttributeError", args |-> <<"partbuilder.errors", cls>>]

(***************************************************************************)
(* _sort_parts and _compute_dependencies as functions.                     *)
(***************************************************************************)

\* sorted(..., key=name, reverse=True) is stable: x goes behind every element
\* whose name is not smaller.
RECURSIVE InsertByNameDesc(_, _)
InsertByNameDesc(x, s) ==
    IF s = <<>> THEN <<x>>
    ELSE IF NameOrd(s[1]) >= NameOrd(x) THEN <<s[1]>> \o InsertByNameDesc(x, Tail(s))
    ELSE <<x>> \o s

RECURSIVE InsertionSortDesc(_, _)
InsertionSortDesc(done, todo) ==
    IF todo = <<>> THEN done
    ELSE InsertionSortDesc(InsertByNameDesc(todo[1], done), Tail(todo))

UnsortedParts(parts) == parts

RECURSIVE InsertByNameAsc(_, _)
InsertByNameAsc(x, s) ==
    IF s = <<>> THEN <<x>>
    ELSE IF NameOrd(s[1]) <= NameOrd(x) THEN <<s[1]>> \o InsertByNameAsc(x, Tail(s))
    ELSE <<x>> \o s

RECURSIVE InsertionSortAsc(_, _)
InsertionSortAsc(done, todo) ==
    IF todo = <<>> THEN done
    ELSE InsertionSortAsc(InsertByNameAsc(todo[1], done), Tail(todo))

SortedByNameAsc(parts) == InsertionSortAsc(<<>>, parts)

SortedByNameDesc(parts) == InsertionSortDesc(<<>>, parts)

\* The inner loops of _sort_parts: part is mentioned when it is in the deps of
\* some part still in the pool (itself included).
Mentioned(part, pool, d) == \E i \in 1..Len(pool) : part \in Range(d[pool[i]])

\* Index of the first part of the pool that is not mentioned; 0 when there is none.
TopPartIndex(pool, d) ==
    LET free == {i \in 1..Len(pool) : ~Mentioned(pool[i], pool, d)}
    IN  IF free = {} THEN 0 ELSE CHOOSE i \in free : \A j \in free : i <= j

AppendTopPart(top_part, sorted) == Append(sorted, top_part)

\* sorted_parts = [top_part] + sorted_parts
PrependTopPart(top_part, sorted) == <<top_part>> \o sorted

\* get_part: the first loaded part with that name, None (here "") otherwise.
get_part(parts, part_name) == IF part_name \in Range(parts) THEN part_name ELSE ""

\* The while loop of _sort_parts run to its end: the sorted list, with
\* ok = FALSE when the loop raised.
RECURSIVE SortLoop(_, _, _)
SortLoop(pool, sorted, d) ==
    IF pool = <<>> THEN [ok |-> TRUE, parts |-> sorted]
    ELSE LET t == TopPartIndex(pool, d)
         IN  IF t = 0 THEN [ok |-> FALSE, parts |-> sorted]
             ELSE SortLoop(RemoveAt(pool, t), PrependTopPart(pool[t], sorted), d)

_sort_parts(parts, d) == SortLoop(SortedByNameDesc(parts), <<>>, d)

(***************************************************************************)
(* SpecGraph: LifecycleManager.__init__ step by step.                      *)
(***************************************************************************)

\* The parts definitions explored: any set of defined names, listed in any
\* order, with at most MaxEdges after entries in all, each naming any name of
\* the universe (a name that is not defined is a missing part, the part's own
\* name a self reference).
\* No global state file in the work directory.
NoGlobalState == [saved |-> FALSE, build_packages |-> <<>>, build_snaps |-> <<>>, required_grade |-> "None", grade_set_in |-> 0]

\* No partbuilderctl process.
NoCtl == [pc |-> "none", cmd |-> "", env |-> {}, calls |-> <<>>, reads |-> 0, written |-> <<>>, feedback |-> <<>>, exit |-> "none", error |-> [type |-> "none", args |-> <<>>]]

\* No ELF scan.
NoElf == [pc |-> "none", scan |-> 0, order |-> <<>>, i |-> 0, elf_files |-> {}, loaded |-> {}, soname_cache |-> <<>>, closure |-> {}, error |-> [type |-> "none", args |-> <<>>], first |-> [elf_files |-> {}, closure |-> {}, error |-> [type |-> "none", args |-> <<>>]]]

\* No build_env_for_part call.
NoBuildEnv == [pc |-> "none", plugin |-> <<>>, build_environment |-> <<>>, part |-> "", env |-> <<>>]

\* No Library object.
NoLibrary == [arch |-> <<>>, soname |-> "", soname_path |-> <<>>, search_paths |-> <<>>, path |-> <<>>, in_base_snap |-> FALSE]

\* No SonameCache operation.
NoLibraryCache == [pc |-> "none", cache |-> <<>>, before |-> <<>>, root |-> <<>>, library |-> NoLibrary, error |-> [type |-> "none", args |-> <<>>]]

\* The PartData of a manager whose callbacks have not been invoked: part and
\* step are empty, and the object has no part_build_dir and no
\* part_install_dir attribute.
NoAttribute == [part |-> "", dir |-> "AttributeError"]

NoConfig == [part |-> "", step |-> "", part_build_dir |-> NoAttribute, part_install_dir |-> NoAttribute]

\* Nothing but the lifecycle manager is running.
NoOtherProgram ==
    /\ ctl = NoCtl
    /\ file_list = <<>>
    /\ elf = NoElf
    /\ lifecycles = <<>>
    /\ env_call = NoBuildEnv
    /\ library_cache = NoLibraryCache

\* No lifecycle has been started.
NoLifecycle ==
    /\ config = NoConfig
    /\ state_files = <<>>
    /\ state_time = <<>>
    /\ state_props = <<>>
    /\ properties = <<>>
    /\ inputs_changed = <<>>
    /\ updaters = {}
    /\ runs = 0
    /\ changes = 0
    /\ failures = 0
    /\ status = "idle"
    /\ error = NoError
    /\ steps_were_run = FALSE
    /\ cache = <<>>
    /\ hooks = "dict"
    /\ stack = <<>>
    /\ trace = <<>>
    /\ request = [step |-> -1, names |-> {}, changed |-> {}]
    /\ prev = [step |-> -1, names |-> {}, status |-> "idle"]
    /\ changed = {}
    /\ global_state = NoGlobalState
    /\ installed_files = <<>>
    /\ NoOtherProgram

GraphInit ==
    /\ \E D \in SUBSET PartNames :
       \E o \in Orderings(D) :
       \E E \in SUBSET (D \X PartNames) :
          /\ Cardinality(E) <= MaxEdges
          /\ parts_data = [order |-> o, after |-> [p \in D |-> AscendingList({q \in PartNames : <<p, q>> \in E})]]
    /\ part_names = <<>>
    /\ all_parts = <<>>
    /\ after_requests = <<>>
    /\ deps = <<>>
    /\ sorted_parts = <<>>
    /\ ctor = "process_parts"
    /\ raised = NoError
    /\ generation = 1
    /\ first_result = [ctor |-> "none", all_parts |-> <<>>, order |-> <<>>]
    /\ used = FALSE
    /\ NoLifecycle

Defined == DOMAIN parts_data.after

\* self.after_requests.get(name, [])
AfterOf(requests, name) == IF name \in DOMAIN requests THEN requests[name] ELSE <<>>

\* _process_parts, the loop over the parts mapping: every part is named,
\* its after list moved to after_requests, and the part loaded (load_part
\* appends it to all_parts, with no deps yet).
ProcessParts ==
    /\ ctor = "process_parts"
    /\ part_names' = parts_data.order
    /\ after_requests' = [p \in {q \in Defined : parts_data.after[q] # <<>>} |-> parts_data.after[p]]
    /\ all_parts' = parts_data.order
    /\ deps' = [p \in Defined |-> <<>>]
    /\ ctor' = "compute_dependencies"
    /\ UNCHANGED lvars
    /\ UNCHANGED <<parts_data, sorted_parts, raised, generation, first_result, used>>

\* The loops of _compute_dependencies over todo: deps filled in until the
\* first name that is no loaded part.
RECURSIVE ResolveDeps(_, _, _, _)
ResolveDeps(todo, parts, requests, d) ==
    IF todo = <<>> THEN [missing |-> <<>>, deps |-> d]
    ELSE LET part == todo[1]
             dep_names == AfterOf(requests, part)
             bad == {i \in 1..Len(dep_names) : get_part(parts, dep_names[i]) = ""}
             stop == IF bad = {} THEN Len(dep_names) + 1 ELSE CHOOSE i \in bad : \A j \in bad : i <= j
             d2 == [d EXCEPT ![part] = SubSeq(dep_names, 1, stop - 1)]
         IN  IF bad # {}
             THEN [missing |-> <<part, dep_names[stop]>>, deps |-> d2]
             ELSE ResolveDeps(Tail(todo), parts, requests, d2)

ComputeDependencies ==
    /\ ctor = "compute_dependencies"
    /\ LET r == ResolveDeps(all_parts, all_parts, after_requests, deps)
       IN  /\ deps' = r.deps
           /\ IF r.missing # <<>>
              THEN /\ raised' = RaiseErrorsClass("SnapcraftAfterPartMissingError", r.missing)
                   /\ ctor' = "raised"
              ELSE /\ raised' = raised
                   /\ ctor' = "sort_parts"
    /\ UNCHANGED lvars
    /\ UNCHANGED <<parts_data, part_names, all_parts, after_requests, sorted_parts, generation, first_result, used>>

\* _sort_parts up to its while loop.
SortPartsBegin ==
    /\ ctor = "sort_parts"
    /\ sorted_parts' = <<>>
    /\ all_parts' = SortedByNameDesc(all_parts)
    /\ ctor' = "sorting"
    /\ UNCHANGED lvars
    /\ UNCHANGED <<parts_data, part_names, after_requests, deps, raised, generation, first_result, used>>

\* One iteration of the while loop of _sort_parts.
SortPartsIteration ==
    /\ ctor = "sorting"
    /\ all_parts # <<>>
    /\ LET t == TopPartIndex(all_parts, deps)
       IN  IF t = 0
           THEN /\ raised' = RaiseErrorsClass("SnapcraftLogicError", <<"circular dependency chain found in parts definition">>)
                /\ ctor' = "raised"
                /\ UNCHANGED <<all_parts, sorted_parts>>
           ELSE /\ sorted_parts' = PrependTopPart(all_parts[t], sorted_parts)
                /\ all_parts' = RemoveAt(all_parts, t)
                /\ UNCHANGED <<raised, ctor>>
    /\ UNCHANGED lvars
    /\ UNCHANGED <<parts_data, part_names, after_requests, deps, generation, first_result, used>>

\* The loop has emptied all_parts: _sort_parts returns and _process_parts
\* stores the result; the constructor returns.
SortPartsReturn ==
    /\ ctor = "sorting"
    /\ all_parts = <<>>
    /\ all_parts' = sorted_parts
    /\ ctor' = "constructed"
    /\ UNCHANGED lvars
    /\ UNCHANGED <<parts_data, part_names, after_requests, deps, sorted_parts, raised, generation, first_result, used>>

\* pull(), build(), stage(), prime(): methods of a constructed manager, each
\* entering lifecycle.execute.
UseLifecycle ==
    /\ ctor = "constructed"
    /\ ~used
    /\ used' = TRUE
    /\ UNCHANGED lvars
    /\ UNCHANGED <<parts_data, part_names, all_parts, after_requests, deps, sorted_parts, ctor, raised, generation, first_result>>

\* A second manager is constructed from the same parts and after lists, the
\* parts listed in any order.
ConstructAgain ==
    /\ generation = 1
    /\ ctor \in {"constructed", "raised"}
    /\ first_result' = [ctor |-> ctor, all_parts |-> all_parts, order |-> parts_data.order]
    /\ generation' = 2
    /\ \E o \in Orderings(Defined) : parts_data' = [parts_data EXCEPT !.order = o]
    /\ part_names' = <<>>
    /\ all_parts' = <<>>
    /\ after_requests' = <<>>
    /\ deps' = <<>>
    /\ sorted_parts' = <<>>
    /\ ctor' = "process_parts"
    /\ raised' = NoError
    /\ used' = FALSE
    /\ UNCHANGED lvars

GraphNext ==
    \/ ProcessParts
    \/ ComputeDependencies
    \/ SortPartsBegin
    \/ SortPartsIteration
    \/ SortPartsReturn
    \/ UseLifecycle
    \/ ConstructAgain

SpecGraph == GraphInit /\ [][GraphNext]_vars

(***************************************************************************)
(* The lifecycle.  partbuilder/steps.py, lifecycle/_status_cache.py, the   *)
(* states package and the PluginHandler are not among the sources under    *)
(* src/: what the executor needs from them is modelled after the           *)
(* specification (data model, StateStore, DirtyDetector, OutdatedDetector, *)
(* StepExecutor/Cleaning).                                                 *)
(***************************************************************************)

\* Bounds of the lifecycle runs explored.
MaxRuns == 2
MaxChanges == 1
MaxFailures == 1
MaxRebuilds == 3
MaxRebuildChanges == 2

\* SpecStage: execute() calls, and the contents a part can install at
\* ConflictPath.
MaxStageRuns == 2

MaxContent == 2

\* SpecRestage: execute() calls and changes of build properties.
MaxRestageRuns == 3

MaxRestageChanges == 1

\* SpecHooks: execute() calls and failing callbacks.
MaxHookRuns == 2

MaxHookFailures == 1

\* SpecNested: execute() calls.
MaxNestedRuns == 2

\* SpecPriority: execute() calls and changes between them.
MaxPriorityRuns == 2

MaxPriorityChanges == 2

\* SpecClean: execute() calls and changes of build properties.
MaxCleanRuns == 2

MaxCleanChanges == 1

\* SpecEnv: the length of a part's declared build-environment.
MaxDeclared == 2

\* SpecGlobal: execute() calls.
MaxInstalls == 3

\* Step: Pull(0) < Build(1) < Stage(2) < Prime(3).
PULL == 0
BUILD == 1
STAGE == 2
PRIME == 3
NoStep == -1

STEPS == {PULL, BUILD, STAGE, PRIME}

\* step.previous_steps() and step.next_steps(), as lists.
previous_steps(step) == [i \in 1..step |-> i - 1]

next_steps(step) == [i \in 1..(PRIME - step) |-> step + i]

\* The step a dependency must have completed for the dependent to run step:
\* none for Pull, Stage for Build, Stage and Prime.
get_dependency_prerequisite_step(step) == IF step = PULL THEN NoStep ELSE STAGE

\* get_dependencies(part_name, recursive=...): the parts part_name is after.
RECURSIVE get_dependencies(_, _)
get_dependencies(part_name, recursive) ==
    LET dependency_names == Range(AfterOf(after_requests, part_name))
        dependencies == {p \in Range(all_parts) : p \in dependency_names}
    IN  IF recursive
        THEN dependencies \cup UNION {get_dependencies(d, recursive) : d \in dependency_names}
        ELSE dependencies

DirectReverseDependencies(part_name, recursive) ==
    {p \in Range(all_parts) : part_name \in Range(AfterOf(after_requests, p))}

\* get_reverse_dependencies(part_name, recursive=...): the parts that are
\* after part_name.
RECURSIVE get_reverse_dependencies(_, _)
get_reverse_dependencies(part_name, recursive) ==
    LET reverse_dependency_names ==
            {part \in DOMAIN after_requests : part_name \in Range(after_requests[part])}
        reverse_dependencies == {p \in Range(all_parts) : p \in reverse_dependency_names}
    IN  IF recursive
        THEN reverse_dependencies
                 \cup UNION {get_reverse_dependencies(d, recursive) : d \in reverse_dependency_names}
        ELSE reverse_dependencies

\* State files carry their modification time; only the order of the times
\* matters, so they are kept as ranks 1..n (0: no file).
Times(t) == {t[p][s] : p \in DOMAIN t, s \in STEPS}

CompressTimes(t) ==
    [p \in DOMAIN t |-> [s \in STEPS |->
        IF t[p][s] = 0 THEN 0 ELSE Cardinality({v \in Times(t) : 0 < v /\ v <= t[p][s]})]]

Newest(t) == CHOOSE m \in Times(t) \cup {0} : \A v \in Times(t) : v <= m

\* StateStore.write(step, record) for part p: the file exists, is the newest,
\* records the current properties, and is newer than the step's inputs.
StateWritten(p, step) ==
    /\ state_files' = [state_files EXCEPT ![p] = @ \cup {step}]
    /\ state_time' = CompressTimes([state_time EXCEPT ![p][step] = Newest(state_time) + 1])
    /\ state_props' = [state_props EXCEPT ![p][step] = properties[p][step]]
    /\ inputs_changed' = [inputs_changed EXCEPT ![p][step] = FALSE]

AllPartsCleaned(p, step) ==
    /\ state_files' = [q \in Defined |-> {s \in state_files[q] : s < step}]
    /\ state_time' = CompressTimes([q \in Defined |-> [s \in STEPS |-> IF s >= step THEN 0 ELSE state_time[q][s]]])
    /\ state_props' = [q \in Defined |-> [s \in STEPS |-> IF s >= step THEN 0 ELSE state_props[q][s]]]
    /\ inputs_changed' = [q \in Defined |-> [s \in STEPS |-> IF s >= step THEN FALSE ELSE inputs_changed[q][s]]]

NothingCleaned(p, step) == UNCHANGED <<state_files, state_time, state_props, inputs_changed>>

StepCleaned(p, step) ==
    /\ state_files' = [state_files EXCEPT ![p] = @ \ {step}]
    /\ state_time' = CompressTimes([state_time EXCEPT ![p][step] = 0])
    /\ state_props' = [state_props EXCEPT ![p][step] = 0]
    /\ inputs_changed' = [inputs_changed EXCEPT ![p][step] = FALSE]

\* part.clean(staged_state, primed_state, step): the state files of step and
\* of every later step of the part are deleted; no other part is touched.
PartCleaned(p, step) ==
    /\ state_files' = [state_files EXCEPT ![p] = {s \in @ : s < step}]
    /\ state_time' = CompressTimes([state_time EXCEPT ![p] = [s \in STEPS |-> IF s >= step THEN 0 ELSE @[s]]])
    /\ state_props' = [state_props EXCEPT ![p] = [s \in STEPS |-> IF s >= step THEN 0 ELSE @[s]]]
    /\ inputs_changed' = [inputs_changed EXCEPT ![p] = [s \in STEPS |-> IF s >= step THEN FALSE ELSE @[s]]]

\* DirtyDetector: the recorded properties differ from the current ones, or
\* the prerequisite step of a dependency is newer than this state or has
\* been cleaned.  The report is the set of differences (empty: not dirty).
get_dirty_report(p, step) ==
    LET prerequisite == get_dependency_prerequisite_step(step)
        own == IF state_props[p][step] # properties[p][step] THEN {<<"properties", p>>} ELSE {}
        changed_dependencies ==
            IF prerequisite = NoStep THEN {}
            ELSE {d \in get_dependencies(p, TRUE) :
                     \/ prerequisite \notin state_files[d]
                     \/ state_time[d][prerequisite] > state_time[p][step]}
    IN  own \cup {<<"dependency", d>> : d \in changed_dependencies}

\* OutdatedDetector: the step's inputs on disk changed after its state was written.
get_outdated_report(p, step) == inputs_changed[p][step]

\* StatusCache.has_step_run / should_step_run: a step needs to run when it
\* has not run yet.
has_step_run(p, step) == step \in cache[p]

should_step_run(p, step) == ~has_step_run(p, step)

\* StatusCache.clear_step and add_step_run.
clear_step(c, p, step) == [c EXCEPT ![p] = @ \ {step}]

add_step_run(c, p, step) == [c EXCEPT ![p] = @ \cup {step}]

(***************************************************************************)
(* lifecycle.execute and _Executor.                                        *)
(***************************************************************************)

\* The parts definitions the lifecycle is run on: the chain a after [b],
\* b after [c]; and b after [a] beside an unrelated part c.
LifecycleDefinitions ==
    {[order |-> <<"a", "b", "c">>, after |-> [a |-> <<"b">>, b |-> <<"c">>, c |-> <<>>]],
     [order |-> <<"a", "b", "c">>, after |-> [a |-> <<>>, b |-> <<"a">>, c |-> <<>>]]}

\* Which update_<step> functions the parts have.
UpdaterSets == {{PULL, BUILD}}

\* The part_names arguments tried: none, one part, an undefined part.
NameChoices == {{}, {"a"}, {"e"}}

\* The shapes of the hooks arguments: "list" as LifecycleManager passes its
\* registered callbacks (and as execute() defaults them), "dict" a mapping
\* from step name to a list of callbacks.
GlobalNameChoices == {{}, {"e"}}

\* What repo.Repo.install_build_packages can return.
PackageLists == {<<>>, <<"gcc">>, <<"make">>, <<"gcc", "make">>}

RestageNameChoices == {{}, {"a"}, {"b"}, {"c"}}

StageNameChoices == {{}, {"a"}}

HookShapes == {"list", "dict"}

\* The steps whose properties are changed between runs (Pull and Build), and
\* the steps whose inputs on disk are touched (Pull and Build, which have an
\* updater, and Stage, which has none).
PropertySteps == {PULL, BUILD}

InputSteps == {PULL, BUILD, STAGE}

\* A manager constructed from one of the definitions given.
ConstructedFrom(definitions) ==
    /\ parts_data \in definitions
    /\ part_names = parts_data.order
    /\ after_requests = [p \in {q \in Defined : parts_data.after[q] # <<>>} |-> parts_data.after[p]]
    /\ deps = ResolveDeps(parts_data.order, parts_data.order, after_requests, [p \in Defined |-> <<>>]).deps
    /\ all_parts = _sort_parts(parts_data.order, deps).parts
    /\ sorted_parts = all_parts
    /\ ctor = "constructed"
    /\ raised = NoError
    /\ generation = 1
    /\ first_result = [ctor |-> "none", all_parts |-> <<>>, order |-> <<>>]
    /\ used = FALSE

\* A manager constructed from one of the definitions the lifecycle is run on.
ConstructedManager == ConstructedFrom(LifecycleDefinitions)

\* A work directory without state, and no execute() call made yet.
EmptyWorkDir ==
    /\ config = NoConfig
    /\ state_files = [p \in Defined |-> {}]
    /\ state_time = [p \in Defined |-> [s \in STEPS |-> 0]]
    /\ state_props = [p \in Defined |-> [s \in STEPS |-> 0]]
    /\ properties = [p \in Defined |-> [s \in STEPS |-> 0]]
    /\ inputs_changed = [p \in Defined |-> [s \in STEPS |-> FALSE]]
    /\ updaters \in UpdaterSets
    /\ runs = 0
    /\ changes = 0
    /\ failures = 0
    /\ status = "idle"
    /\ error = NoError
    /\ steps_were_run = FALSE
    /\ cache = [p \in Defined |-> {}]
    /\ hooks = "dict"
    /\ stack = <<>>
    /\ trace = <<>>
    /\ request = [step |-> NoStep, names |-> {}, changed |-> {}]
    /\ prev = [step |-> NoStep, names |-> {}, status |-> "idle"]
    /\ changed = {}
    /\ global_state = NoGlobalState

Init ==
    /\ ConstructedManager
    /\ EmptyWorkDir
    /\ installed_files = [p \in Defined |-> 0]
    /\ NoOtherProgram

gfixed == <<parts_data, part_names, all_parts, after_requests, deps, sorted_parts, ctor, raised, generation, first_result, installed_files, ctl, file_list, elf, lifecycles, env_call, library_cache>>

disk == <<state_files, state_time, state_props, inputs_changed>>

history == <<request, prev, changed, config>>

OnlyRequestedStep(step) == <<step>>

\* step.previous_steps() + [step]: the current_step values of one run.
StepsOfRun(step) == previous_steps(step) \o <<step>>

\* _Executor.run(step, part_names) at the head of its loops.  An empty
\* part_names (None or no names) selects every part.
RunFrame(step, names) ==
    LET Wanted(p) == p \in names
    IN  [step |-> step,
         names |-> names,
         parts |-> IF names # {} THEN SelectSeq(all_parts, Wanted) ELSE all_parts,
         steps |-> StepsOfRun(step),
         ci |-> 1,
         idx |-> 0,
         ph |-> "loop",
         mode |-> "-",
         checked |-> FALSE]

\* validate(part_names): the names that are not defined.
Undefined(names) == names \ Range(part_names)

Top == stack[Len(stack)]

SetTop(f) == [stack EXCEPT ![Len(stack)] = f]

CurrentStep(f) == f.steps[f.ci]

CurrentPart(f) == f.parts[f.idx]

\* _handle_step has returned: on to the next part, or to the next current_step.
Advance(f) ==
    IF f.idx < Len(f.parts)
    THEN [f EXCEPT !.idx = @ + 1, !.ph = "handle", !.mode = "-"]
    ELSE [f EXCEPT !.ci = @ + 1, !.idx = 0, !.ph = "loop", !.mode = "-"]

InHandleStep == status = "running" /\ stack # <<>> /\ Top.ph = "handle"

LeavesInnermostRunOnly(err) ==
    /\ status' = IF Len(stack) = 1 THEN "raised" ELSE status
    /\ error' = err
    /\ stack' = SubSeq(stack, 1, Len(stack) - 1)

\* An exception leaves every active run and execute().
Raised(err) ==
    /\ status' = "raised"
    /\ error' = err
    /\ stack' = <<>>

ForgetGlobalState(file) == NoGlobalState

\* GlobalState.load(filepath), or GlobalState() when there is no file.
LoadGlobalState(file) == IF file.saved THEN file ELSE NoGlobalState

\* Set-union that keeps the order of insertion: the entries of new that the
\* list does not have yet, added at its end.
RECURSIVE AppendNew(_, _)
AppendNew(list, new) ==
    IF new = <<>> THEN list
    ELSE AppendNew(IF Head(new) \in Range(list) THEN list ELSE Append(list, Head(new)), Tail(new))

append_build_packages(gs, build_packages) == [gs EXCEPT !.build_packages = AppendNew(@, build_packages)]

append_build_snaps(gs, build_snaps) == [gs EXCEPT !.build_snaps = AppendNew(@, build_snaps)]

_get_required_grade == "devel"

GradeAlwaysMissing(gs) == TRUE

\* global_state.get_required_grade() is None
GradeMissing(gs) == gs.required_grade = "None"

\* _install_build_snaps(get_build_snaps(), get_content_snaps()): both sets
\* are empty, nothing is installed.
_install_build_snaps == <<>>

\* The global state part of execute(): load or create, append what was
\* installed, set the grade if there is none, save.  grade_set_in records
\* the execute() call that set the grade.
UpdatedGlobalState(installed_packages) ==
    LET loaded == LoadGlobalState(global_state)
        appended == append_build_snaps(append_build_packages(loaded, installed_packages), _install_build_snaps)
        graded == IF GradeMissing(appended)
                  THEN [appended EXCEPT !.required_grade = _get_required_grade, !.grade_set_in = runs + 1]
                  ELSE appended
    IN  [graded EXCEPT !.saved = TRUE]

\* execute(step, builder, pre_hooks, post_hooks, part_names): the build
\* packages are installed and the global state saved, then a new _Executor
\* with its StatusCache, and executor.run(step, part_names).
Execute(step, names, shape, installed_packages) ==
    /\ global_state' = UpdatedGlobalState(installed_packages)
    /\ ctor = "constructed"
    /\ status # "running"
    /\ runs' = runs + 1
    /\ used' = TRUE
    /\ prev' = [step |-> request.step, names |-> request.names, status |-> status]
    /\ request' = [step |-> step, names |-> names, changed |-> changed]
    /\ changed' = {}
    /\ trace' = <<>>
    /\ steps_were_run' = FALSE
    /\ cache' = state_files
    /\ hooks' = shape
    /\ IF names # {} /\ Undefined(names) # {}
       THEN Raised(RaiseErrorsClass("SnapcraftEnvironmentError", <<CHOOSE n \in Undefined(names) : TRUE>>))
       ELSE /\ status' = "running"
            /\ error' = NoError
            /\ stack' = <<RunFrame(step, names)>>
    /\ UNCHANGED <<gfixed, disk, properties, updaters, changes, failures, config>>

\* The one path two parts can both install to.
ConflictPath == "etc/x"

\* The file a build leaves at ConflictPath depends on the part's build
\* properties: built with other properties, a part that installs the file
\* installs it with another content.
BuiltContent(content, build_properties) ==
    IF content = 0 THEN 0 ELSE ((content - 1 + build_properties) % MaxContent) + 1

\* What part p has at ConflictPath in its install directory: nothing before
\* the part is built, then the regular file its build produces (0: no file,
\* otherwise the file's content).
InstalledAt(p) ==
    IF BUILD \in state_files[p] THEN BuiltContent(installed_files[p], state_props[p][BUILD]) ELSE 0

\* The pairs of parts, in the order of the list, that have regular files of
\* different content at ConflictPath.
Collisions(parts) ==
    {ij \in (DOMAIN parts) \X (DOMAIN parts) :
        /\ ij[1] < ij[2]
        /\ InstalledAt(parts[ij[1]]) # 0
        /\ InstalledAt(parts[ij[2]]) # 0
        /\ InstalledAt(parts[ij[1]]) # InstalledAt(parts[ij[2]])}

NoCollisions(parts) == NoError

\* check_for_collisions(parts): each part's files against the files of the
\* parts before it; the first conflict raises, naming both parts and the path.
check_for_collisions(parts) ==
    IF Collisions(parts) = {} THEN NoError
    ELSE LET ij == CHOOSE c \in Collisions(parts) :
                     \A d \in Collisions(parts) :
                        c[2] < d[2] \/ (c[2] = d[2] /\ c[1] <= d[1])
         IN  [type |-> "Collision", args |-> <<parts[ij[1]], parts[ij[2]], ConflictPath>>]

ChecksAtTopLevelOnly(f) == CurrentStep(f) = STAGE /\ Len(stack) = 1

\* if current_step == steps.STAGE, in every run(); the frame records that
\* its check has been made.
ChecksCollisions(f) == CurrentStep(f) = STAGE

\* The head of the current_step loop: before the parts are handled for
\* Stage, check_for_collisions(all_parts).
BeginStep ==
    /\ status = "running" /\ stack # <<>>
    /\ Top.ph = "loop"
    /\ Top.ci <= Len(Top.steps)
    /\ trace' = IF ChecksCollisions(Top) THEN Append(trace, <<"collisions", "", STAGE>>) ELSE trace
    /\ IF ChecksCollisions(Top) /\ check_for_collisions(all_parts) # NoError
       THEN Raised(check_for_collisions(all_parts))
       ELSE /\ stack' = SetTop(Advance([Top EXCEPT !.checked = @ \/ ChecksCollisions(Top)]))
            /\ UNCHANGED <<status, error>>
    /\ UNCHANGED <<gfixed, global_state, used, disk, properties, updaters, runs, changes, failures, steps_were_run, cache, hooks, history>>

\* The loops of run() are over: _create_meta, and run() returns to
\* _prepare_step, or to execute(), which ends.
ReturnFromRun ==
    /\ status = "running" /\ stack # <<>>
    /\ Top.ph = "loop"
    /\ Top.ci > Len(Top.steps)
    /\ stack' = SubSeq(stack, 1, Len(stack) - 1)
    /\ status' = IF Len(stack) = 1 THEN "done" ELSE status
    /\ UNCHANGED <<gfixed, global_state, used, disk, properties, updaters, runs, changes, failures, error, steps_were_run, cache, hooks, trace, history>>

AlwaysRequested(f) == TRUE

NeverExplicit(f) == FALSE

\* 1.1 and 1.2 of _handle_step: the step is the requested one and the part
\* was named.
IsExplicitlyRequested(f) ==
    /\ f.names # {}
    /\ CurrentStep(f) = f.step
    /\ CurrentPart(f) \in f.names

\* part.part_build_dir and part.part_install_dir: the directories of a part.
part_build_dir(p) == [part |-> p, dir |-> "build"]

part_install_dir(p) == [part |-> p, dir |-> "install"]

\* _run_hooks before its loop over the callbacks: the part, the step and the
\* part's build directory are written to the PartData the callbacks get.
HookConfig(p, step) ==
    [config EXCEPT !.part = p, !.step = step, !.part_build_dir = part_build_dir(p)]

\* The step has not run yet: pre-step hooks, then _run_<step>.  Hooks given
\* as a list cannot be indexed by the step name: TypeError.
RunStep ==
    /\ InHandleStep
    /\ ~has_step_run(CurrentPart(Top), CurrentStep(Top))
    /\ IF hooks = "list"
       THEN /\ Raised([type |-> "TypeError", args |-> <<"list indices must be integers or slices, not str">>])
            /\ UNCHANGED <<trace, config>>
       ELSE /\ trace' = Append(trace, <<"pre", CurrentPart(Top), CurrentStep(Top)>>)
            /\ config' = HookConfig(CurrentPart(Top), CurrentStep(Top))
            /\ stack' = SetTop([Top EXCEPT !.ph = "prepare", !.mode = "run"])
            /\ UNCHANGED <<status, error>>
    /\ UNCHANGED <<gfixed, global_state, used, disk, properties, updaters, runs, changes, failures, steps_were_run, cache, hooks, request, prev, changed>>

\* The loop of _rerun_step over [step] + step.next_steps(): clear_step each.
ClearFromStep(c, p, step) == [c EXCEPT ![p] = @ \ ({step} \cup Range(next_steps(step)))]

\* _rerun_step up to its call of _run_step: the part is cleaned from step on
\* and the cache cleared for the steps cleaned.
RerunStep(p, step) ==
    /\ PartCleaned(p, step)
    /\ cache' = ClearFromStep(cache, p, step)
    /\ trace' = Append(trace, <<"clean", p, step>>)
    /\ stack' = SetTop([Top EXCEPT !.ph = "prepare", !.mode = "rerun"])

\* 1. The step has run, is the requested step and the part was named: _re<step>.
ExplicitRerun ==
    /\ InHandleStep
    /\ has_step_run(CurrentPart(Top), CurrentStep(Top))
    /\ IsExplicitlyRequested(Top)
    /\ RerunStep(CurrentPart(Top), CurrentStep(Top))
    /\ UNCHANGED <<gfixed, global_state, used, properties, updaters, runs, changes, failures, status, error, steps_were_run, hooks, history>>

ERROR == "ERROR"

ErrorPolicy == ERROR

\* dirty_action = OutdatedStepAction.CLEAN in _handle_dirty and
\* _handle_outdated: the only action the handlers are given.
dirty_action == "CLEAN"

\* Step.clean_if_dirty: false for Pull, whose sources may have been edited.
clean_if_dirty(step) == step # PULL

\* The test that opens _handle_dirty and _handle_outdated: the step is not
\* one to clean and the action is ERROR.
RaisesStepOutdated(step) == ~clean_if_dirty(step) /\ dirty_action = ERROR

\* 2. The step has run and is dirty: _handle_dirty, which either raises
\* StepOutdatedError or cleans and re-runs the step.
HandleDirty ==
    /\ InHandleStep
    /\ has_step_run(CurrentPart(Top), CurrentStep(Top))
    /\ ~IsExplicitlyRequested(Top)
    /\ get_dirty_report(CurrentPart(Top), CurrentStep(Top)) # {}
    /\ IF RaisesStepOutdated(CurrentStep(Top))
       THEN /\ Raised(RaiseErrorsClass("StepOutdatedError", <<CurrentPart(Top)>>))
            /\ UNCHANGED <<disk, cache, trace>>
       ELSE /\ RerunStep(CurrentPart(Top), CurrentStep(Top))
            /\ UNCHANGED <<status, error>>
    /\ UNCHANGED <<gfixed, global_state, used, properties, updaters, runs, changes, failures, steps_were_run, hooks, history>>

NoUpdateFunction(step) == FALSE

\* getattr(part, "update_{}".format(step.name), None)
has_update_function(step) == step \in updaters

\* 3. The step has run and is outdated: _handle_outdated, which either
\* raises StepOutdatedError, or updates the step in place when the part has
\* update_<step>, or cleans and re-runs it.
HandleOutdated ==
    /\ InHandleStep
    /\ has_step_run(CurrentPart(Top), CurrentStep(Top))
    /\ ~IsExplicitlyRequested(Top)
    /\ get_dirty_report(CurrentPart(Top), CurrentStep(Top)) = {}
    /\ get_outdated_report(CurrentPart(Top), CurrentStep(Top))
    /\ IF RaisesStepOutdated(CurrentStep(Top))
       THEN /\ Raised(RaiseErrorsClass("StepOutdatedError", <<CurrentPart(Top)>>))
            /\ UNCHANGED <<disk, cache, trace>>
       ELSE /\ IF has_update_function(CurrentStep(Top))
               THEN /\ stack' = SetTop([Top EXCEPT !.ph = "prepare", !.mode = "update"])
                    /\ UNCHANGED <<disk, cache, trace>>
               ELSE RerunStep(CurrentPart(Top), CurrentStep(Top))
            /\ UNCHANGED <<status, error>>
    /\ UNCHANGED <<gfixed, global_state, used, properties, updaters, runs, changes, failures, steps_were_run, hooks, history>>

\* 4. The step has run and is up to date: "Skipping <step> (already ran)".
SkipStep ==
    /\ InHandleStep
    /\ has_step_run(CurrentPart(Top), CurrentStep(Top))
    /\ ~IsExplicitlyRequested(Top)
    /\ get_dirty_report(CurrentPart(Top), CurrentStep(Top)) = {}
    /\ ~get_outdated_report(CurrentPart(Top), CurrentStep(Top))
    /\ trace' = Append(trace, <<"skip", CurrentPart(Top), CurrentStep(Top)>>)
    /\ stack' = SetTop(Advance(Top))
    /\ UNCHANGED <<gfixed, global_state, used, disk, properties, updaters, runs, changes, failures, status, error, steps_were_run, cache, hooks, history>>

NoDependencies(p, step) == {}

\* _prepare_step: the dependencies of the part that still need to run the
\* prerequisite step.
NeededDependencies(p, step) ==
    LET prerequisite_step == get_dependency_prerequisite_step(step)
    IN  IF prerequisite_step = NoStep THEN {}
        ELSE {d \in get_dependencies(p, FALSE) : should_step_run(d, prerequisite_step)}

\* _prepare_step: self.run(prerequisite_step, dependency_names) when there
\* are such dependencies; then the step's body is next.
PrepareStep ==
    /\ status = "running" /\ stack # <<>>
    /\ Top.ph = "prepare"
    /\ LET needed == NeededDependencies(CurrentPart(Top), CurrentStep(Top))
           waiting == SetTop([Top EXCEPT !.ph = "body"])
       IN  stack' = IF needed # {}
                    THEN Append(waiting, RunFrame(get_dependency_prerequisite_step(CurrentStep(Top)), needed))
                    ELSE waiting
    /\ UNCHANGED <<gfixed, global_state, used, disk, properties, updaters, runs, changes, failures, status, error, steps_were_run, cache, hooks, trace, history>>

\* _complete_step on the cache.
_complete_step(c, p, step) == add_step_run(clear_step(c, p, step), p, step)

\* _run_step after _prepare_step: the body of the step (which writes the
\* step's state) and _complete_step.  On the first run of the step
\* _handle_step goes on to the post-step hooks; a re-run has none.
StepBody ==
    /\ status = "running" /\ stack # <<>>
    /\ Top.ph = "body"
    /\ Top.mode \in {"run", "rerun"}
    /\ StateWritten(CurrentPart(Top), CurrentStep(Top))
    /\ cache' = _complete_step(cache, CurrentPart(Top), CurrentStep(Top))
    /\ steps_were_run' = TRUE
    /\ trace' = Append(trace, <<"body", CurrentPart(Top), CurrentStep(Top)>>)
    /\ stack' = SetTop(IF Top.mode = "run" THEN [Top EXCEPT !.ph = "post"] ELSE Advance(Top))
    /\ UNCHANGED <<gfixed, global_state, used, properties, updaters, runs, changes, failures, status, error, hooks, history>>

\* _handle_outdated after _prepare_step: update_<step>(), which rewrites the
\* step's state, and _complete_step.
UpdateStep ==
    /\ status = "running" /\ stack # <<>>
    /\ Top.ph = "body"
    /\ Top.mode = "update"
    /\ StateWritten(CurrentPart(Top), CurrentStep(Top))
    /\ cache' = _complete_step(cache, CurrentPart(Top), CurrentStep(Top))
    /\ steps_were_run' = TRUE
    /\ trace' = Append(trace, <<"update", CurrentPart(Top), CurrentStep(Top)>>)
    /\ stack' = SetTop(Advance(Top))
    /\ UNCHANGED <<gfixed, global_state, used, properties, updaters, runs, changes, failures, status, error, hooks, history>>

\* The body of the step (or the updater) raises: nothing is written and the
\* exception leaves execute().
StepFails ==
    /\ status = "running" /\ stack # <<>>
    /\ Top.ph = "body"
    /\ failures' = failures + 1
    /\ trace' = Append(trace, <<"failed", CurrentPart(Top), CurrentStep(Top)>>)
    /\ Raised([type |-> "StepError", args |-> <<CurrentPart(Top)>>])
    /\ UNCHANGED <<gfixed, global_state, used, disk, properties, updaters, runs, changes, steps_were_run, cache, hooks, history>>

\* The post-step hooks of the first run of a step.
PostHooks ==
    /\ status = "running" /\ stack # <<>>
    /\ Top.ph = "post"
    /\ trace' = Append(trace, <<"post", CurrentPart(Top), CurrentStep(Top)>>)
    /\ config' = HookConfig(CurrentPart(Top), CurrentStep(Top))
    /\ stack' = SetTop(Advance(Top))
    /\ UNCHANGED <<gfixed, global_state, used, disk, properties, updaters, runs, changes, failures, status, error, steps_were_run, cache, hooks, request, prev, changed>>

\* Between two execute() calls the user changes a property that step of
\* part p depends on (a pull or build option, the stage or prime fileset).
ChangeProperty(p, step) ==
    /\ ctor = "constructed"
    /\ status # "running"
    /\ 0 < runs
    /\ <<"properties", p, step>> \notin changed
    /\ changes' = changes + 1
    /\ properties' = [properties EXCEPT ![p][step] = 1 - @]
    /\ changed' = changed \cup {<<"properties", p, step>>}
    /\ UNCHANGED <<gfixed, global_state, used, disk, updaters, runs, failures, status, error, steps_were_run, cache, hooks, stack, trace, request, prev, config>>

\* Between two execute() calls the inputs on disk of a step that has run
\* change (sources, the part's install directory).
TouchInputs(p, step) ==
    /\ ctor = "constructed"
    /\ status # "running"
    /\ 0 < runs
    /\ step \in state_files[p]
    /\ ~inputs_changed[p][step]
    /\ changes' = changes + 1
    /\ inputs_changed' = [inputs_changed EXCEPT ![p][step] = TRUE]
    /\ changed' = changed \cup {<<"inputs", p, step>>}
    /\ UNCHANGED <<gfixed, global_state, used, state_files, state_time, state_props, properties, updaters, runs, failures, status, error, steps_were_run, cache, hooks, stack, trace, request, prev, config>>

\* Any two execute() calls, of any step, with or without part names, with
\* either shape of hooks, a failing step body and a change between the calls.
Next ==
    \/ \E step \in STEPS, names \in NameChoices, shape \in HookShapes :
          runs < MaxRuns /\ Execute(step, names, shape, <<>>)
    \/ BeginStep
    \/ ReturnFromRun
    \/ RunStep
    \/ ExplicitRerun
    \/ HandleDirty
    \/ HandleOutdated
    \/ SkipStep
    \/ PrepareStep
    \/ StepBody
    \/ UpdateStep
    \/ failures < MaxFailures /\ StepFails
    \/ PostHooks
    \/ \E p \in Defined, step \in PropertySteps :
          runs < MaxRuns /\ changes < MaxChanges /\ ChangeProperty(p, step)
    \/ \E p \in Defined, step \in InputSteps :
          runs < MaxRuns /\ changes < MaxChanges /\ TouchInputs(p, step)

Spec == Init /\ [][Next]_vars

\* stage, of all parts or of part a, from a work directory without state, the
\* parts' builds installing a file at ConflictPath or not.
InitStage ==
    /\ ConstructedManager
    /\ EmptyWorkDir
    /\ installed_files \in [Defined -> 0..MaxContent]
    /\ NoOtherProgram

NextStage ==
    \/ \E names \in StageNameChoices, shape \in HookShapes :
          runs < MaxStageRuns /\ Execute(STAGE, names, shape, <<>>)
    \/ BeginStep
    \/ ReturnFromRun
    \/ RunStep
    \/ ExplicitRerun
    \/ SkipStep
    \/ PrepareStep
    \/ StepBody
    \/ PostHooks

SpecStage == InitStage /\ [][NextStage]_vars

\* stage again and again, of all parts or of one part, with a change of a
\* part's build properties in between, the hooks given as dicts.
NextRestage ==
    \/ \E names \in RestageNameChoices :
          runs < MaxRestageRuns /\ Execute(STAGE, names, "dict", <<>>)
    \/ BeginStep
    \/ ReturnFromRun
    \/ RunStep
    \/ ExplicitRerun
    \/ HandleDirty
    \/ SkipStep
    \/ PrepareStep
    \/ StepBody
    \/ PostHooks
    \/ \E p \in Defined :
          runs < MaxRestageRuns /\ changes < MaxRestageChanges /\ ChangeProperty(p, BUILD)

SpecRestage == InitStage /\ [][NextRestage]_vars

\* _run_hooks(self._post_hooks, ...): one of the registered post-step
\* callbacks raises.  The exception passes through _run_hooks, _handle_step
\* and run(), and leaves execute(); what _run_step has written stays.
PostHookFails ==
    /\ status = "running" /\ stack # <<>>
    /\ Top.ph = "post"
    /\ failures' = failures + 1
    /\ trace' = Append(trace, <<"hookfailed", CurrentPart(Top), CurrentStep(Top)>>)
    /\ config' = HookConfig(CurrentPart(Top), CurrentStep(Top))
    /\ Raised([type |-> "HookError", args |-> <<CurrentPart(Top)>>])
    /\ UNCHANGED <<gfixed, global_state, used, disk, properties, updaters, runs, changes, steps_were_run, cache, hooks, request, prev, changed>>

\* Two execute() calls, of any step, with or without part names, the hooks
\* given as dicts of callbacks, one of which may raise.
NextHooks ==
    \/ \E step \in STEPS, names \in NameChoices :
          runs < MaxHookRuns /\ Execute(step, names, "dict", <<>>)
    \/ BeginStep
    \/ ReturnFromRun
    \/ RunStep
    \/ ExplicitRerun
    \/ SkipStep
    \/ PrepareStep
    \/ StepBody
    \/ PostHooks
    \/ failures < MaxHookFailures /\ PostHookFails

SpecHooks == Init /\ [][NextHooks]_vars

\* A part with two dependencies of which one depends on the other:
\* a after [b, c], b after [c].
NestedDefinitions ==
    {[order |-> <<"a", "b", "c">>, after |-> [a |-> <<"b", "c">>, b |-> <<"c">>, c |-> <<>>]]}

InitNested ==
    /\ ConstructedFrom(NestedDefinitions)
    /\ EmptyWorkDir
    /\ installed_files = [p \in Defined |-> 0]
    /\ NoOtherProgram

\* Two execute() calls, of any step, of all parts or of part a, the hooks
\* given as dicts.
NextNested ==
    \/ \E step \in STEPS, names \in StageNameChoices :
          runs < MaxNestedRuns /\ Execute(step, names, "dict", <<>>)
    \/ BeginStep
    \/ ReturnFromRun
    \/ RunStep
    \/ ExplicitRerun
    \/ HandleDirty
    \/ SkipStep
    \/ PrepareStep
    \/ StepBody
    \/ PostHooks

SpecNested == InitNested /\ [][NextNested]_vars

\* build, of all parts or of part a, twice, the hooks given as dicts and
\* every step body succeeding, with up to two changes between the calls: a
\* step can be requested, dirty and outdated at once.
NextPriority ==
    \/ \E names \in StageNameChoices :
          runs < MaxPriorityRuns /\ Execute(BUILD, names, "dict", <<>>)
    \/ BeginStep
    \/ ReturnFromRun
    \/ RunStep
    \/ ExplicitRerun
    \/ HandleDirty
    \/ HandleOutdated
    \/ SkipStep
    \/ PrepareStep
    \/ StepBody
    \/ UpdateStep
    \/ PostHooks
    \/ \E p \in Defined, step \in PropertySteps :
          runs < MaxPriorityRuns /\ changes < MaxPriorityChanges /\ ChangeProperty(p, step)
    \/ \E p \in Defined, step \in PropertySteps :
          runs < MaxPriorityRuns /\ changes < MaxPriorityChanges /\ TouchInputs(p, step)

SpecPriority == Init /\ [][NextPriority]_vars

\* prime, of all parts or of one part, twice, from a work directory without
\* state in which the parts install any content, the hooks given as dicts,
\* with a change of a build property between the calls.
NextClean ==
    \/ \E names \in StageNameChoices :
          runs < MaxCleanRuns /\ Execute(PRIME, names, "dict", <<>>)
    \/ BeginStep
    \/ ReturnFromRun
    \/ RunStep
    \/ ExplicitRerun
    \/ HandleDirty
    \/ SkipStep
    \/ PrepareStep
    \/ StepBody
    \/ PostHooks
    \/ \E p \in Defined :
          runs < MaxCleanRuns /\ changes < MaxCleanChanges /\ ChangeProperty(p, BUILD)

SpecClean == InitStage /\ [][NextClean]_vars

\* pull, again and again, each call having installed some build packages.
NextGlobal ==
    \/ \E names \in GlobalNameChoices, installed_packages \in PackageLists :
          runs < MaxInstalls /\ Execute(PULL, names, "dict", installed_packages)
    \/ BeginStep
    \/ ReturnFromRun
    \/ RunStep
    \/ SkipStep
    \/ PrepareStep
    \/ StepBody
    \/ PostHooks

SpecGlobal == Init /\ [][NextGlobal]_vars

\* prime of all parts, again and again, the hooks given as dicts and every
\* step body succeeding, with changes between the calls.
NextRebuild ==
    \/ runs < MaxRebuilds /\ Execute(PRIME, {}, "dict", <<>>)
    \/ BeginStep
    \/ ReturnFromRun
    \/ RunStep
    \/ HandleDirty
    \/ HandleOutdated
    \/ SkipStep
    \/ PrepareStep
    \/ StepBody
    \/ UpdateStep
    \/ PostHooks
    \/ \E p \in Defined, step \in PropertySteps :
          runs < MaxRebuilds /\ changes < MaxRebuildChanges /\ ChangeProperty(p, step)
    \/ \E p \in Defined, step \in InputSteps :
          runs < MaxRebuilds /\ changes < MaxRebuildChanges /\ TouchInputs(p, step)

SpecRebuild == Init /\ [][NextRebuild]_vars


(***************************************************************************)
(* partbuilderctl: the helper a scriptlet calls during a part's step.      *)
(***************************************************************************)

\* The characters of a feedback: a printing character, a blank, a newline.
Whitespace == {" ", "\n"}

Chars == {"x"} \cup Whitespace

MaxFeedback == 3

RECURSIVE SeqsUpTo(_, _)
SeqsUpTo(S, n) ==
    IF n = 0 THEN {<<>>}
    ELSE LET shorter == SeqsUpTo(S, n - 1)
         IN  shorter \cup {Append(s, c) : s \in shorter, c \in S}

\* What the other end can write to the feedback fifo before closing it.
Feedbacks == SeqsUpTo(Chars, MaxFeedback)

\* The commands partbuilderctl can be given.
Commands == {"pull", "build", "stage", "prime", "set-version"}

FifoVariables == {"PARTBUILDERCTL_CALL_FIFO", "PARTBUILDERCTL_FEEDBACK_FIFO"}

\* f.readline(): up to and including the first newline, or everything.
readline(s) ==
    IF \E i \in DOMAIN s : s[i] = "\n"
    THEN SubSeq(s, 1, CHOOSE i \in DOMAIN s : s[i] = "\n" /\ \A j \in 1..(i - 1) : s[j] # "\n")
    ELSE s

\* str.strip(): without the leading and the trailing whitespace.
strip(s) ==
    IF \A i \in DOMAIN s : s[i] \in Whitespace THEN <<>>
    ELSE LET first == CHOOSE i \in DOMAIN s : s[i] \notin Whitespace /\ \A j \in 1..(i - 1) : s[j] \in Whitespace
             last == CHOOSE i \in DOMAIN s : s[i] \notin Whitespace /\ \A j \in (i + 1)..Len(s) : s[j] \in Whitespace
         IN  SubSeq(s, first, last)

lifecycle_vars == <<state_files, state_time, state_props, properties, inputs_changed, updaters, runs, changes, failures, status, error, steps_were_run, cache, hooks, stack, trace, request, prev, changed, global_state, installed_files, config>>

\* partbuilderctl has been started with a command, the fifo variables of
\* env defined.
InitCtl ==
    /\ ConstructedManager
    /\ EmptyWorkDir
    /\ installed_files = [p \in Defined |-> 0]
    /\ \E cmd \in Commands, env \in SUBSET FifoVariables :
          ctl = [pc |-> "run", cmd |-> cmd, env |-> env, calls |-> <<>>, reads |-> 0,
                 written |-> <<>>, feedback |-> <<>>, exit |-> "none", error |-> NoError]
    /\ file_list = <<>>
    /\ elf = NoElf
    /\ lifecycles = <<>>
    /\ env_call = NoBuildEnv
    /\ library_cache = NoLibraryCache

\* run(cmd): _call_function for the four step commands, nothing otherwise.
CtlRun ==
    /\ ctl.pc = "run"
    /\ ctl' = IF ctl.cmd \in {"pull", "build", "stage", "prime"}
              THEN [ctl EXCEPT !.pc = "environ"]
              ELSE [ctl EXCEPT !.pc = "returned", !.exit = "return"]
    /\ UNCHANGED <<gvars, lifecycle_vars, file_list, elf, lifecycles, env_call, library_cache>>

\* The two os.environ lookups; KeyError becomes PartbuilderEnvironmentError.
CtlEnviron ==
    /\ ctl.pc = "environ"
    /\ ctl' = IF FifoVariables \subseteq ctl.env
              THEN [ctl EXCEPT !.pc = "write"]
              ELSE [ctl EXCEPT !.pc = "raised", !.exit = "raise",
                               !.error = RaiseErrorsClass("PartbuilderEnvironmentError",
                                   <<IF "PARTBUILDERCTL_CALL_FIFO" \notin ctl.env
                                     THEN "PARTBUILDERCTL_CALL_FIFO" ELSE "PARTBUILDERCTL_FEEDBACK_FIFO">>)]
    /\ UNCHANGED <<gvars, lifecycle_vars, file_list, elf, lifecycles, env_call, library_cache>>

\* json.dumps(data) written to the call fifo and flushed.
CtlWrite ==
    /\ ctl.pc = "write"
    /\ ctl' = [ctl EXCEPT !.pc = "read", !.calls = Append(@, [function |-> ctl.cmd, args |-> <<>>])]
    /\ UNCHANGED <<gvars, lifecycle_vars, file_list, elf, lifecycles, env_call, library_cache>>

\* feedback = f.readline().strip() on the feedback fifo.
CtlRead ==
    /\ ctl.pc = "read"
    /\ \E written \in Feedbacks :
          ctl' = [ctl EXCEPT !.pc = "check", !.reads = @ + 1, !.written = written,
                             !.feedback = strip(readline(written))]
    /\ UNCHANGED <<gvars, lifecycle_vars, file_list, elf, lifecycles, env_call, library_cache>>

\* if feedback: sys.exit(-1)
CtlCheck ==
    /\ ctl.pc = "check"
    /\ ctl' = IF ctl.feedback # <<>>
              THEN [ctl EXCEPT !.pc = "exited", !.exit = "exit(-1)"]
              ELSE [ctl EXCEPT !.pc = "returned", !.exit = "return"]
    /\ UNCHANGED <<gvars, lifecycle_vars, file_list, elf, lifecycles, env_call, library_cache>>

NextCtl ==
    \/ CtlRun
    \/ CtlEnviron
    \/ CtlWrite
    \/ CtlRead
    \/ CtlCheck

SpecCtl == InitCtl /\ [][NextCtl]_vars

(***************************************************************************)
(* elf.py: get_elf_files over the files of a primed tree, and the          *)
(* dependency closure of the ELF files found, with one SonameCache.        *)
(***************************************************************************)

MaxFiles == 3

\* The files a primed tree can hold, by what get_elf_files meets in them:
\* an object file, a symlink, a file without the ELF magic, an ELF file
\* that pyelftools rejects with ELFError, one whose attributes raise
\* ConstructError, a static executable, and dynamic executables.
Files == {"main.o", "link", "README", "bad.so", "corrupt", "static", "app1", "app2", "app3"}

Arch == <<"ELFCLASS64", "ELFDATA2LSB", "EM_X86_64">>

PrimeDir == <<"prime">>

CoreBasePath == <<"core">>

\* ldd(path): soname -> soname_path, in the order of ldd's output.  app1 and
\* app2 need the same soname and the loader finds it at different paths of
\* the primed tree; app3 needs a library the loader does not find.
ldd(f) ==
    CASE f = "app1" -> << <<"libfoo.so.1", <<"prime", "lib1", "libfoo.so.1">> >>,
                          <<"libc.so.6", <<"core", "lib", "libc.so.6">> >> >>
      [] f = "app2" -> << <<"libfoo.so.1", <<"prime", "lib2", "libfoo.so.1">> >> >>
      [] f = "app3" -> << <<"libbar.so.2", <<"libbar.so.2">> >> >>
      [] OTHER -> <<>>

\* elf_file.needed: the DT_NEEDED entries.
needed(f) == {ldd(f)[i][1] : i \in DOMAIN ldd(f)}

\* The library files that exist: valid ELF files of architecture Arch.
LibraryFiles ==
    {<<"prime", "lib1", "libfoo.so.1">>, <<"prime", "lib2", "libfoo.so.1">>, <<"core", "lib", "libc.so.6">>}

\* str.startswith: a path is the sequence of the pieces of its string, and
\* it starts with root when root's pieces are its first pieces.
startswith(path, root) == Len(root) <= Len(path) /\ SubSeq(path, 1, Len(root)) = root

\* Library._is_valid_elf: the file exists, is an ELF file, and
\* elf_file.arch == self.arch.
_is_valid_elf(path, arch) == path \in LibraryFiles /\ arch = Arch

\* The os.walk of the search paths: the first valid ELF file named soname.
CrawlFound(arch, soname, search_paths) ==
    {p \in LibraryFiles : /\ p[Len(p)] = soname
                          /\ \E r \in Range(search_paths) : startswith(p, r)
                          /\ _is_valid_elf(p, arch)}

\* _crawl_for_path without the look-up in the cache.
CrawlWithoutCache(sonames, arch, soname, soname_path, search_paths) ==
    IF (\E r \in Range(search_paths) : startswith(soname_path, r)) /\ _is_valid_elf(soname_path, arch)
    THEN soname_path
    ELSE IF CrawlFound(arch, soname, search_paths) # {}
         THEN CHOOSE p \in CrawlFound(arch, soname, search_paths) : TRUE
         ELSE soname_path

\* Library._crawl_for_path: what the cache has for (arch, soname), else the
\* loader's path if it is a valid ELF file inside the search paths, else the
\* first file found by walking the search paths, else the loader's path.
_crawl_for_path(sonames, arch, soname, soname_path, search_paths) ==
    IF <<arch, soname>> \in DOMAIN sonames
    THEN sonames[<<arch, soname>>]
    ELSE IF (\E r \in Range(search_paths) : startswith(soname_path, r)) /\ _is_valid_elf(soname_path, arch)
         THEN soname_path
         ELSE IF CrawlFound(arch, soname, search_paths) # {}
              THEN CHOOSE p \in CrawlFound(arch, soname, search_paths) : TRUE
              ELSE soname_path

\* SonameCache.__setitem__
SetItem(sonames, key, item) ==
    [k \in DOMAIN sonames \cup {key} |-> IF k = key THEN item ELSE sonames[k]]

\* ElfFile.load_dependencies: a Library for every entry of ldd's answer, in
\* order, with the shared cache; the paths of those not in the base.
RECURSIVE LoadLibraries(_, _, _)
LoadLibraries(libraries, sonames, dependencies) ==
    IF libraries = <<>> THEN [cache |-> sonames, dependencies |-> dependencies]
    ELSE LET soname == Head(libraries)[1]
             path == _crawl_for_path(sonames, Arch, soname, Head(libraries)[2], <<PrimeDir, CoreBasePath>>)
         IN  LoadLibraries(Tail(libraries),
                           SetItem(sonames, <<Arch, soname>>, path),
                           IF startswith(path, CoreBasePath) THEN dependencies ELSE dependencies \cup {path})

load_dependencies(f, sonames) == LoadLibraries(ldd(f), sonames, {})

NoScan == [elf_files |-> {}, closure |-> {}, error |-> NoError]

\* get_elf_files(root, file_list) has been called on a list of files.
InitElf ==
    /\ ConstructedManager
    /\ EmptyWorkDir
    /\ installed_files = [p \in Defined |-> 0]
    /\ ctl = NoCtl
    /\ \E S \in SUBSET Files :
          /\ Cardinality(S) <= MaxFiles
          /\ file_list \in Orderings(S)
    /\ elf = [pc |-> "scan", scan |-> 1, order |-> file_list, i |-> 1, elf_files |-> {},
              loaded |-> {}, soname_cache |-> <<>>, closure |-> {}, error |-> NoError,
              first |-> NoScan]
    /\ lifecycles = <<>>
    /\ env_call = NoBuildEnv
    /\ library_cache = NoLibraryCache

SkippedFiles == {"main.o", "link", "README", "bad.so"}

CorruptedFiles == {"corrupt"}

\* ElfFile(path=path) fails with one of UnicodeDecodeError, AttributeError,
\* ConstructError: raise errors.CorruptedElfFileError(path, exception), which
\* get_elf_files catches, going on to the next file; any other exception
\* leaves get_elf_files.
CorruptedElfFile(part_file) ==
    LET exception == RaiseErrorsClass("CorruptedElfFileError", <<part_file>>)
    IN  IF exception.type = "CorruptedElfFileError"
        THEN [elf EXCEPT !.i = @ + 1]
        ELSE [elf EXCEPT !.pc = "raised", !.error = exception]

\* One iteration of the loop of get_elf_files.
ElfVisit ==
    /\ elf.pc = "scan"
    /\ elf.i <= Len(elf.order)
    /\ LET part_file == elf.order[elf.i]
       IN  elf' = IF part_file \in SkippedFiles THEN [elf EXCEPT !.i = @ + 1]
                  ELSE IF part_file \in CorruptedFiles THEN CorruptedElfFile(part_file)
                  ELSE IF needed(part_file) # {}
                       THEN [elf EXCEPT !.i = @ + 1, !.elf_files = @ \cup {part_file}]
                       ELSE [elf EXCEPT !.i = @ + 1]
    /\ UNCHANGED <<gvars, lifecycle_vars, ctl, file_list, lifecycles, env_call, library_cache>>

\* return frozenset(elf_files)
ElfReturn ==
    /\ elf.pc = "scan"
    /\ elf.i > Len(elf.order)
    /\ elf' = [elf EXCEPT !.pc = "load"]
    /\ UNCHANGED <<gvars, lifecycle_vars, ctl, file_list, lifecycles, env_call, library_cache>>

\* The caller's loop over the frozenset, in no defined order:
\* elf_file.load_dependencies(..., soname_cache=self._soname_cache).
ElfLoadDependencies ==
    /\ elf.pc = "load"
    /\ \E f \in elf.elf_files \ elf.loaded :
          LET r == load_dependencies(f, elf.soname_cache)
          IN  elf' = [elf EXCEPT !.loaded = @ \cup {f}, !.soname_cache = r.cache,
                                 !.closure = @ \cup r.dependencies]
    /\ UNCHANGED <<gvars, lifecycle_vars, ctl, file_list, lifecycles, env_call, library_cache>>

ElfClosureDone ==
    /\ elf.pc = "load"
    /\ elf.loaded = elf.elf_files
    /\ elf' = [elf EXCEPT !.pc = "done"]
    /\ UNCHANGED <<gvars, lifecycle_vars, ctl, file_list, lifecycles, env_call, library_cache>>

\* The same files are scanned again, listed in any order, with a new
\* SonameCache.
ElfScanAgain ==
    /\ elf.pc \in {"done", "raised"}
    /\ elf.scan = 1
    /\ \E order \in Orderings(Range(file_list)) :
          elf' = [pc |-> "scan", scan |-> 2, order |-> order, i |-> 1, elf_files |-> {},
                  loaded |-> {}, soname_cache |-> <<>>, closure |-> {}, error |-> NoError,
                  first |-> [elf_files |-> elf.elf_files, closure |-> elf.closure, error |-> elf.error]]
    /\ UNCHANGED <<gvars, lifecycle_vars, ctl, file_list, lifecycles, env_call, library_cache>>

NextElf ==
    \/ ElfVisit
    \/ ElfReturn
    \/ ElfLoadDependencies
    \/ ElfClosureDone
    \/ ElfScanAgain

SpecElf == InitElf /\ [][NextElf]_vars

(***************************************************************************)
(* elf.py: the SonameCache and the Library objects that share it.          *)
(***************************************************************************)

MaxCached == 2

\* Python's None, as a value of the cache and as core_base_path.
None == <<"None">>

\* An architecture that no library file has.
OtherArch == <<"ELFCLASS32", "ELFDATA2LSB", "EM_386">>

Architectures == {Arch, OtherArch}

Sonames == {"libfoo.so.1", "libc.so.6"}

SonameCacheKeys == Architectures \X Sonames

\* What ldd answers for a soname: a file it found, or the soname itself.
LoaderPaths(soname) == {p \in LibraryFiles : p[Len(p)] = soname} \cup {<<soname>>}

\* A path of a tree whose name begins like the primed tree's name.
StalePath == <<"prime", "-old", "lib", "libfoo.so.1">>

\* The values __setitem__ accepts: it checks the key only.
SonameCacheValues == {None, StalePath, <<"prime", "lib1", "libfoo.so.1">>, <<"core", "lib", "libc.so.6">>}

\* The dictionaries a cache holds before the operations below.
SonameCacheDicts ==
    UNION {[D -> SonameCacheValues] : D \in {S \in SUBSET SonameCacheKeys : Cardinality(S) <= MaxCached}}

\* The roots reset_except_root is called with; the empty string is one.
Roots == {<<>>, PrimeDir, CoreBasePath, <<"prime", "lib1">>}

\* reset_except_root without the test for None.
ResetKeepsNone(sonames, root) ==
    [key \in {k \in DOMAIN sonames : startswith(sonames[k], root)} |-> sonames[key]]

\* SonameCache.reset_except_root
reset_except_root(sonames, root) ==
    LET new_soname_paths == {key \in DOMAIN sonames : sonames[key] # None /\ startswith(sonames[key], root)}
    IN  [key \in new_soname_paths |-> sonames[key]]

\* A cache, no operation on it yet.
InitSoname ==
    /\ ConstructedManager
    /\ EmptyWorkDir
    /\ installed_files = [p \in Defined |-> 0]
    /\ ctl = NoCtl
    /\ file_list = <<>>
    /\ elf = NoElf
    /\ lifecycles = <<>>
    /\ env_call = NoBuildEnv
    /\ \E sonames \in SonameCacheDicts :
          library_cache = [NoLibraryCache EXCEPT !.pc = "cache", !.cache = sonames]

\* Library.__init__: self.path = self._crawl_for_path(), which writes the
\* cache unless the cache has the key; then self.path.startswith(core_base_path)
\* when core_base_path is not None, an AttributeError when the path is None.
NewLibrary ==
    \E arch \in Architectures, soname \in Sonames, core_base_path \in {None, CoreBasePath} :
       \E soname_path \in LoaderPaths(soname) :
          LET search_paths == IF core_base_path = None THEN <<PrimeDir>> ELSE <<PrimeDir, core_base_path>>
              key == <<arch, soname>>
              path == _crawl_for_path(library_cache.cache, arch, soname, soname_path, search_paths)
              sonames == IF key \in DOMAIN library_cache.cache THEN library_cache.cache
                         ELSE SetItem(library_cache.cache, key, path)
          IN  /\ library_cache' =
                    IF core_base_path # None /\ path = None
                    THEN [pc |-> "raised", cache |-> sonames, before |-> library_cache.cache, root |-> <<>>,
                          library |-> NoLibrary,
                          error |-> [type |-> "AttributeError", args |-> <<"NoneType", "startswith">>]]
                    ELSE [pc |-> "library", cache |-> sonames, before |-> library_cache.cache, root |-> <<>>,
                          library |-> [arch |-> arch, soname |-> soname, soname_path |-> soname_path,
                                       search_paths |-> search_paths, path |-> path,
                                       in_base_snap |-> core_base_path # None /\ startswith(path, core_base_path)],
                          error |-> NoError]
              /\ UNCHANGED <<gvars, lifecycle_vars, ctl, file_list, elf, lifecycles, env_call>>

\* soname_cache.reset_except_root(root)
ResetExceptRoot ==
    /\ \E root \in Roots :
          library_cache' = [pc |-> "reset", cache |-> reset_except_root(library_cache.cache, root),
                            before |-> library_cache.cache, root |-> root, library |-> NoLibrary,
                            error |-> NoError]
    /\ UNCHANGED <<gvars, lifecycle_vars, ctl, file_list, elf, lifecycles, env_call>>

NextSoname ==
    \/ NewLibrary
    \/ ResetExceptRoot

SpecSoname == InitSoname /\ [][NextSoname]_vars

(***************************************************************************)
(* build_env_for_part.                                                     *)
(***************************************************************************)

\* The plugins of the parts: nil has no environment, the other one has an
\* entry that depends on the root it is asked for.
Plugins == {"nil", "autotools"}

\* The entries a part may declare as its build-environment.
DeclaredEntries == {"FOO=1", "FOO=2"}

DeclaredLists == SeqsUpTo(DeclaredEntries, MaxDeclared)

\* self._config.stage_dir, and no directory.
stage_dir == [part |-> "", dir |-> "stage"]

NoDir == [part |-> "", dir |-> ""]

\* An entry of the environment: a string, kept as what produced it, for
\* which directory, and the variable or text.
Entry(kind, root, text) == [kind |-> kind, root |-> root, text |-> text]

\* part.env(root): the environment of the part's plugin for root.
part_env(p, root) ==
    IF env_call.plugin[p] = "nil" THEN <<>> ELSE <<Entry("plugin", root, env_call.plugin[p])>>

\* runtime_env(root, arch_triplet), env_call(root, arch_triplet) and
\* build_env_for_stage(stagedir, arch_triplet).
runtime_env(root) == <<Entry("runtime", root, "PATH"), Entry("runtime", root, "LD_LIBRARY_PATH")>>

build_env(root) == <<Entry("build", root, "CFLAGS")>>

build_env_for_stage(stagedir) == build_env(stagedir) \o <<Entry("build", stagedir, "PKG_CONFIG_PATH")>>

\* get_part_directory_environment(part), each variable formatted as an entry.
get_part_directory_environment(p) ==
    <<Entry("partdir", [part |-> p, dir |-> "src"], "SNAPCRAFT_PART_SRC"),
      Entry("partdir", part_build_dir(p), "SNAPCRAFT_PART_BUILD"),
      Entry("partdir", part_install_dir(p), "SNAPCRAFT_PART_INSTALL")>>

\* part.build_environment, the entries the part declares.
RECURSIVE build_environment(_)
build_environment(declared) ==
    IF declared = <<>> THEN <<>>
    ELSE <<Entry("declared", NoDir, Head(declared))>> \o build_environment(Tail(declared))

KeepDuplicates(env, seen) == env

\* The loop that ends build_env_for_part: an entry is kept when it is not in
\* seen, and is then added to seen.
RECURSIVE Deduped(_, _)
Deduped(env, seen) ==
    IF env = <<>> THEN <<>>
    ELSE IF Head(env) \in seen THEN Deduped(Tail(env), seen)
    ELSE <<Head(env)>> \o Deduped(Tail(env), seen \cup {Head(env)})

\* What build_env_for_part adds for the part itself.
OwnEnv(p, root_part) ==
    IF root_part
    THEN part_env(p, part_install_dir(p))
            \o runtime_env(part_install_dir(p))
            \o runtime_env(stage_dir)
            \o build_env(part_install_dir(p))
            \o build_env_for_stage(stage_dir)
            \o get_part_directory_environment(p)
            \o build_environment(env_call.build_environment[p])
    ELSE part_env(p, stage_dir) \o runtime_env(stage_dir)

\* build_env_for_part(part, root_part), and its loop over part.deps.
RECURSIVE build_env_for_part(_, _)
RECURSIVE DependenciesEnv(_)
DependenciesEnv(dep_parts) ==
    IF dep_parts = <<>> THEN <<>>
    ELSE part_env(Head(dep_parts), stage_dir)
            \o build_env_for_part(Head(dep_parts), FALSE)
            \o DependenciesEnv(Tail(dep_parts))

build_env_for_part(p, root_part) ==
    Deduped(OwnEnv(p, root_part) \o DependenciesEnv(deps[p]), {})

\* The parts have any of the plugins and declare any environment; no call
\* of build_env_for_part has been made.
InitEnv ==
    /\ ConstructedFrom(LifecycleDefinitions \cup NestedDefinitions)
    /\ EmptyWorkDir
    /\ installed_files = [p \in Defined |-> 0]
    /\ ctl = NoCtl
    /\ file_list = <<>>
    /\ elf = NoElf
    /\ lifecycles = <<>>
    /\ library_cache = NoLibraryCache
    /\ \E plugin \in [Defined -> Plugins], declared \in [Defined -> DeclaredLists] :
          env_call = [pc |-> "idle", plugin |-> plugin, build_environment |-> declared,
                       part |-> "", env |-> <<>>]

\* build_env_for_part(part) is called for one of the parts and returns.
BuildEnvForPart(p) ==
    /\ env_call.pc = "idle"
    /\ env_call' = [env_call EXCEPT !.pc = "returned", !.part = p, !.env = build_env_for_part(p, TRUE)]
    /\ UNCHANGED <<gvars, lifecycle_vars, ctl, file_list, elf, lifecycles, library_cache>>

\* The list returned is used, and the next call can be made.
BuildEnvUsed ==
    /\ env_call.pc = "returned"
    /\ env_call' = [env_call EXCEPT !.pc = "idle", !.env = <<>>]
    /\ UNCHANGED <<gvars, lifecycle_vars, ctl, file_list, elf, lifecycles, library_cache>>

NextEnv ==
    \/ \E p \in Defined : BuildEnvForPart(p)
    \/ BuildEnvUsed

SpecEnv == InitEnv /\ [][NextEnv]_vars

(***************************************************************************)
(* Two processes, each with a manager of the same definition, pull on the  *)
(* same work directory.                                                    *)
(***************************************************************************)

MaxProcesses == 2

Processes == 1..MaxProcesses

gfixed_manager == <<parts_data, part_names, all_parts, after_requests, deps, sorted_parts, ctor, raised, generation, first_result>>

executor_vars == <<properties, updaters, changes, failures, status, error, steps_were_run, cache, hooks, stack, trace, request, prev, changed, installed_files, config>>

IdleLifecycle == [pc |-> "idle", hooks |-> "dict", idx |-> 0, cache |-> <<>>, bodies |-> {}, error |-> NoError]

InitConcurrent ==
    /\ ConstructedManager
    /\ EmptyWorkDir
    /\ installed_files = [p \in Defined |-> 0]
    /\ ctl = NoCtl
    /\ file_list = <<>>
    /\ elf = NoElf
    /\ lifecycles = [k \in Processes |-> IdleLifecycle]
    /\ env_call = NoBuildEnv
    /\ library_cache = NoLibraryCache

\* Process k calls execute(PULL, ...): the global state is saved and a new
\* _Executor with its StatusCache is created.  Nothing is acquired that
\* another process could hold.
LcExecute(k, shape) ==
    /\ lifecycles[k].pc = "idle"
    /\ runs' = runs + 1
    /\ used' = TRUE
    /\ global_state' = UpdatedGlobalState(<<>>)
    /\ lifecycles' = [lifecycles EXCEPT ![k] = [@ EXCEPT !.pc = "handle", !.hooks = shape, !.idx = 1,
                                                     !.cache = [p \in Defined |-> state_files[p]]]]
    /\ UNCHANGED <<gfixed_manager, disk, executor_vars, ctl, file_list, elf, env_call, library_cache>>

\* _handle_step of process k for its next part: nothing to do when the
\* process's cache has the step as run, else the pre-step hooks (TypeError
\* for hooks given as lists) and on to the step body.
LcHandleStep(k) ==
    /\ lifecycles[k].pc = "handle"
    /\ lifecycles[k].idx <= Len(all_parts)
    /\ LET l == lifecycles[k]
           part == all_parts[l.idx]
       IN  lifecycles' = [lifecycles EXCEPT ![k] =
              IF PULL \in l.cache[part] THEN [l EXCEPT !.idx = @ + 1]
              ELSE IF l.hooks = "list"
                   THEN [l EXCEPT !.pc = "raised",
                                  !.error = [type |-> "TypeError", args |-> <<"list indices must be integers or slices, not str">>]]
                   ELSE [l EXCEPT !.pc = "body"]]
    /\ UNCHANGED <<gvars, lifecycle_vars, ctl, file_list, elf, env_call, library_cache>>

\* The pull body of process k's part has run: the state is written and the
\* post-step hooks are called.
LcStepBody(k) ==
    /\ lifecycles[k].pc = "body"
    /\ LET l == lifecycles[k]
           part == all_parts[l.idx]
       IN  /\ StateWritten(part, PULL)
           /\ lifecycles' = [lifecycles EXCEPT ![k] =
                 [l EXCEPT !.pc = "handle", !.idx = @ + 1, !.bodies = @ \cup {part},
                           !.cache = [@ EXCEPT ![part] = @ \cup {PULL}]]]
    /\ UNCHANGED <<gvars, executor_vars, runs, global_state, ctl, file_list, elf, env_call, library_cache>>

\* run() and execute() return in process k.
LcReturn(k) ==
    /\ lifecycles[k].pc = "handle"
    /\ lifecycles[k].idx > Len(all_parts)
    /\ lifecycles' = [lifecycles EXCEPT ![k] = [@ EXCEPT !.pc = "done"]]
    /\ UNCHANGED <<gvars, lifecycle_vars, ctl, file_list, elf, env_call, library_cache>>

NextConcurrent ==
    \/ \E k \in Processes, shape \in HookShapes : LcExecute(k, shape)
    \/ \E k \in Processes : LcHandleStep(k)
    \/ \E k \in Processes : LcStepBody(k)
    \/ \E k \in Processes : LcReturn(k)

SpecConcurrent == InitConcurrent /\ [][NextConcurrent]_vars

(***************************************************************************)
(* The parts definition as given, for the claims about the part graph.     *)
(***************************************************************************)

\* The names p lists in its after entry (none for a name that is not defined).
InputAfter(p) == IF p \in Defined THEN Range(parts_data.after[p]) ELSE {}

\* The names reachable from the names of S over after entries, S included.
RECURSIVE ReachFrom(_)
ReachFrom(S) ==
    LET more == S \cup UNION {InputAfter(p) : p \in S}
    IN  IF more = S THEN S ELSE ReachFrom(more)

\* The transitive after dependencies of p.
TransitiveAfter(p) == ReachFrom(InputAfter(p))

HasCycle == \E p \in Defined : p \in TransitiveAfter(p)

HasMissing == \E p \in Defined : InputAfter(p) \ Defined # {}

PositionIn(s, x) == CHOOSE i \in 1..Len(s) : s[i] = x

IsPermutationOf(s, S) == Len(s) = Cardinality(S) /\ Range(s) = S

ConstructionEnded == ctor \in {"constructed", "raised"}

\* C1: for every acyclic parts definition whose after names all resolve, the
\* construction succeeds and all_parts, as returned by _sort_parts, is a
\* permutation of the defined parts in which every part comes strictly after
\* each of its transitive after dependencies.
C1_TopologicalOrder ==
    /\ (ctor = "raised" => HasCycle \/ HasMissing)
    /\ (ctor = "constructed" =>
          /\ IsPermutationOf(all_parts, Defined)
          /\ \A p \in Defined : \A q \in TransitiveAfter(p) :
               PositionIn(all_parts, q) < PositionIn(all_parts, p))

\* C1 witness: a constructed manager whose definition has a part with a
\* dependency it reaches only through another part.
C1_Witness ==
    /\ ctor = "constructed"
    /\ \E p \in Defined : TransitiveAfter(p) \ InputAfter(p) # {}

\* C2 as claimed: two independent parts a and b, neither with after, are
\* executed in the order [b, a].
C2_DescendingTies ==
    (ctor = "constructed" /\ Defined = {"a", "b"} /\ \A p \in Defined : InputAfter(p) = {})
        => all_parts = <<"b", "a">>

\* C2 as amended: when no part has an after entry, the execution order is
\* ascending by name; two independent parts a and b are executed as [a, b].
C2_IndependentAscending ==
    (ctor = "constructed" /\ \A p \in Defined : InputAfter(p) = {})
        => /\ IsPermutationOf(all_parts, Defined)
           /\ \A i, j \in 1..Len(all_parts) : i < j => NameOrd(all_parts[i]) < NameOrd(all_parts[j])

\* C2 witness: the manager constructed from the independent parts a and b,
\* ordered [a, b].
C2_Witness ==
    /\ ctor = "constructed"
    /\ Defined = {"a", "b"}
    /\ \A p \in Defined : InputAfter(p) = {}
    /\ all_parts = <<"a", "b">>

\* C3: when the after relation has a cycle (every after name being defined),
\* the construction fails with the circular-dependency error and no
\* lifecycle step is executed.
C3_CircularDependencyError ==
    (ConstructionEnded /\ HasCycle /\ ~HasMissing)
        => /\ ctor = "raised"
           /\ raised.type = "SnapcraftLogicError"
           /\ ~used

\* C4: when an after list names a part that is not defined, the construction
\* fails with the missing-dependency error carrying the referring part and
\* the missing name, before the parts are ordered or any step executed.
C4_MissingDependencyError ==
    (ConstructionEnded /\ HasMissing)
        => /\ ctor = "raised"
           /\ raised.type = "SnapcraftAfterPartMissingError"
           /\ Len(raised.args) = 2
           /\ raised.args[1] \in Defined
           /\ raised.args[2] \in InputAfter(raised.args[1]) \ Defined
           /\ sorted_parts = <<>>
           /\ ~used

\* C5: the outcome of the construction does not depend on the order in which
\* the parts mapping lists the parts: the second manager, built from the
\* same parts and after lists listed in another order, ends as the first
\* did and with the same execution order.
C5_OrderIndependent ==
    (generation = 2 /\ ConstructionEnded)
        => /\ ctor = first_result.ctor
           /\ (ctor = "constructed" => all_parts = first_result.all_parts)

\* C5 witness: two managers constructed from three parts listed in different
\* orders.
C5_Witness ==
    /\ generation = 2
    /\ ctor = "constructed"
    /\ Len(all_parts) >= 3
    /\ parts_data.order # first_result.order
    /\ \E p \in Defined : InputAfter(p) # {}

(***************************************************************************)
(* The lifecycle runs, for the claims about state and re-execution.        *)
(***************************************************************************)

\* The events of the current run of the given kinds.
Events(kinds) == {i \in DOMAIN trace : trace[i][1] \in kinds}

\* The steps of part p whose body (or updater) the current run has executed.
Executed(p) == {trace[i][3] : i \in {j \in Events({"body", "update"}) : trace[j][2] = p}}

\* What the current run has executed, cleaned or updated: <<part, step>>.
Reexecuted == {<<trace[i][2], trace[i][3]>> : i \in Events({"body", "update", "clean"})}

\* The parts that p depends on or that depend on p, directly or not.
Related(p) ==
    {p} \cup get_dependencies(p, TRUE) \cup {q \in Defined : p \in get_dependencies(q, TRUE)}

IsChain == get_dependencies("a", FALSE) = {"b"} /\ get_dependencies("b", FALSE) = {"c"}

\* C6: step monotonicity: in every reachable state, a part that has state
\* for a step has state for every earlier step.
C6_StepMonotonicity ==
    \A p \in Defined : \A s \in state_files[p] : \A t \in STEPS :
        t < s => t \in state_files[p]

\* A second run, after a step body has failed, has cleaned the Build step of
\* a part, re-run it and gone on to prime the part.
C6_Witness ==
    /\ runs = 2
    /\ failures = 1
    /\ \E p \in Defined :
         /\ state_files[p] = STEPS
         /\ \E i \in DOMAIN trace : trace[i] = <<"clean", p, BUILD>>

\* C7: in every reachable state, if a part has state for Build, Stage or
\* Prime then each of its direct dependencies has state for Stage.
C7_DependencyPrerequisite ==
    \A p \in Defined : \A s \in state_files[p] :
        get_dependency_prerequisite_step(s) # NoStep =>
            \A d \in get_dependencies(p, FALSE) :
                get_dependency_prerequisite_step(s) \in state_files[d]

\* C7 as it holds: when the state of Build, Stage or Prime of a part is
\* written (by the step body or the updater), each direct dependency of the
\* part has state for Stage.
C7_PrerequisiteWhenWritten ==
    (trace # <<>> /\ trace[Len(trace)][1] \in {"body", "update"}) =>
        LET p == trace[Len(trace)][2]
            s == trace[Len(trace)][3]
        IN  get_dependency_prerequisite_step(s) # NoStep =>
                \A d \in get_dependencies(p, FALSE) :
                    get_dependency_prerequisite_step(s) \in state_files[d]

\* The Build state of a part with a dependency has just been written in a
\* run that had to stage the dependency first.
C7_Witness ==
    /\ trace # <<>>
    /\ trace[Len(trace)][1] = "body"
    /\ trace[Len(trace)][3] = BUILD
    /\ get_dependencies(trace[Len(trace)][2], FALSE) # {}
    /\ \E i \in DOMAIN trace : \E d \in get_dependencies(trace[Len(trace)][2], FALSE) :
         trace[i] = <<"body", d, STAGE>>

\* C8: idempotence: when prime of all parts has completed and is run again
\* with no change in between, the second run executes no step body and no
\* updater, cleans nothing and leaves steps_were_run false.
C8_Idempotence ==
    (/\ prev.step = PRIME /\ prev.names = {} /\ prev.status = "done"
     /\ request.step = PRIME /\ request.names = {} /\ request.changed = {}
     /\ runs > 1)
        => /\ status # "raised"
           /\ ~steps_were_run
           /\ Events({"body", "update", "clean", "pre", "post"}) = {}

\* C9: dirty-driven rebuild: when prime of all parts has completed, a build
\* property of one part P is changed and prime is run again to completion,
\* the second run executes exactly Build, Stage and Prime of P, not Pull, and
\* re-executes no step of a part unrelated to P.
C9_DirtyRebuild ==
    \A p \in Defined :
        (/\ prev.step = PRIME /\ prev.names = {} /\ prev.status = "done"
         /\ request.step = PRIME /\ request.names = {}
         /\ request.changed = {<<"properties", p, BUILD>>}
         /\ runs > 1
         /\ status = "done")
            => /\ Executed(p) = {BUILD, STAGE, PRIME}
               /\ \A e \in Reexecuted : e[1] \in Related(p)

\* The same restricted to the second run after a first prime from no state.
C9_AfterFirstPrime == runs = 2 => C9_DirtyRebuild

\* C10: from no state, for a after [b], b after [c], c: build restricted to
\* {a} ends with Stage state for c and for b, Build state for a, and neither
\* Stage nor Prime state for a.
C10_BuildOneOfChain ==
    (/\ IsChain
     /\ runs = 1
     /\ request.step = BUILD /\ request.names = {"a"}
     /\ failures = 0
     /\ status # "running")
        => /\ STAGE \in state_files["c"]
           /\ STAGE \in state_files["b"]
           /\ BUILD \in state_files["a"]
           /\ STAGE \notin state_files["a"]
           /\ PRIME \notin state_files["a"]

\* The same when the run completes.
C10_WhenCompleted ==
    (/\ IsChain
     /\ runs = 1
     /\ request.step = BUILD /\ request.names = {"a"}
     /\ status = "done")
        => /\ STAGE \in state_files["c"]
           /\ STAGE \in state_files["b"]
           /\ state_files["a"] = {PULL, BUILD}

\* The step bodies the current run has executed: <<part, step>>.
Bodies == {<<trace[i][2], trace[i][3]>> : i \in Events({"body"})}

\* build {a} has completed from no state on the chain, a build property of c
\* was changed, and build {a} has run again to completion.
C11_Scenario ==
    /\ IsChain
    /\ runs = 2
    /\ prev.step = BUILD /\ prev.names = {"a"} /\ prev.status = "done"
    /\ request.step = BUILD /\ request.names = {"a"}
    /\ request.changed = {<<"properties", "c", BUILD>>}
    /\ status = "done"

\* C11: for a after [b], b after [c], c: after build {a} has completed,
\* modifying c's build properties and running build {a} again re-runs c.Build,
\* c.Stage, b.Build, b.Stage and a.Build, and never runs a.Prime.
C11_DependencyChangeRebuilds ==
    C11_Scenario =>
        /\ {<<"c", BUILD>>, <<"c", STAGE>>, <<"b", BUILD>>, <<"b", STAGE>>, <<"a", BUILD>>} \subseteq Bodies
        /\ <<"a", PRIME>> \notin Bodies

\* C11 as it holds: the second build {a} cleans and re-runs a.Build only; no
\* step of c or b is re-run, and a.Prime never runs.
C11_OnlyNamedPartRebuilt ==
    C11_Scenario =>
        /\ Bodies = {<<"a", BUILD>>}
        /\ Reexecuted = {<<"a", BUILD>>}
        /\ state_files["a"] = {PULL, BUILD}

C11_Witness == C11_Scenario /\ steps_were_run

\* The step of the current run in which a step body (or updater) fails.
BodyFails == failures' = failures + 1

\* C12: when the body of a step fails for part P at step S, the run aborts:
\* the failing step writes no state for (P, S) and does not set
\* steps_were_run, and no step body of any later part or step is executed
\* afterwards in that run, enclosing recursive runs included.
C12_FailureAborts ==
    /\ [][BodyFails =>
            /\ disk' = disk
            /\ cache' = cache
            /\ steps_were_run' = steps_were_run
            /\ (Top.mode \in {"run", "rerun"} => CurrentStep(Top) \notin state_files'[CurrentPart(Top)])
            /\ status' = "raised"
            /\ stack' = <<>>]_vars
    /\ []((status = "raised" /\ error.type = "StepError") =>
            /\ stack = <<>>
            /\ trace # <<>>
            /\ trace[Len(trace)][1] = "failed"
            /\ trace[Len(trace)][2] = error.args[1])

\* The Build of c has failed inside the runs started for the dependencies of
\* a named part a, two runs deep.
C12_Witness ==
    /\ status = "raised"
    /\ error.type = "StepError"
    /\ request.names = {"a"}
    /\ trace[Len(trace)] = <<"failed", "c", BUILD>>

\* Parts p and q are unrelated and their builds install different regular
\* files at ConflictPath.
Colliding(p, q) ==
    /\ p # q
    /\ q \notin Related(p)
    /\ installed_files[p] # 0
    /\ installed_files[q] # 0
    /\ installed_files[p] # installed_files[q]

\* The first execute() call, stage of all parts from no state, has ended.
StagedFromNoState ==
    /\ runs = 1
    /\ request.step = STAGE
    /\ request.names = {}
    /\ status \in {"done", "raised"}

\* C13: when two unrelated parts, neither staged, produce regular files of
\* different content at the same relative path, stage ends with a collision
\* error naming both parts and the path, and neither part has Stage state.
C13_CollisionAborts ==
    \A p, q \in Defined :
        (StagedFromNoState /\ Colliding(p, q)) =>
            /\ status = "raised"
            /\ error.type = "Collision"
            /\ {p, q} = {error.args[1], error.args[2]}
            /\ error.args[3] = ConflictPath
            /\ STAGE \notin state_files[p]
            /\ STAGE \notin state_files[q]

\* The same with the hooks given as dicts keyed by step name: the run ends
\* with a collision error.
C13_CollisionRaisedWithDictHooks ==
    \A p, q \in Defined :
        (StagedFromNoState /\ Colliding(p, q) /\ hooks = "dict") =>
            (status = "raised" /\ error.type = "Collision")

\* ... and no colliding part has Stage state.
C13_NothingStagedWithDictHooks ==
    \A p, q \in Defined :
        (StagedFromNoState /\ Colliding(p, q) /\ hooks = "dict") =>
            (STAGE \notin state_files[p] /\ STAGE \notin state_files[q])

\* _handle_step is at a part whose current step has not run: the cache-miss
\* path.
CacheMiss == InHandleStep /\ ~has_step_run(CurrentPart(Top), CurrentStep(Top))

\* The event the step appends to the trace, if it appends one.
Appended == IF Len(trace') = Len(trace) + 1 THEN trace'[Len(trace')] ELSE <<"none", "", NoStep>>

\* C14: on the cache-miss path the registered pre-step callbacks are invoked
\* before the step body and the post-step callbacks after it: handling a
\* cache miss invokes the pre-step callbacks of that part and step, a body
\* runs only after them, and the post-step callbacks directly follow the body.
C14_HooksBracketBody ==
    [][/\ CacheMiss => trace' = Append(trace, <<"pre", CurrentPart(Top), CurrentStep(Top)>>)
       /\ Appended[1] = "body" /\ Top.mode = "run" =>
             \E i \in DOMAIN trace : trace[i] = <<"pre", Appended[2], Appended[3]>>
       /\ Appended[1] = "post" =>
             trace[Len(trace)] = <<"body", Appended[2], Appended[3]>>]_vars

\* With the hooks given as dicts keyed by step name, C14_HooksBracketBody
\* holds.
C14_WithDictHooks ==
    [][hooks = "dict" =>
       /\ CacheMiss => trace' = Append(trace, <<"pre", CurrentPart(Top), CurrentStep(Top)>>)
       /\ Appended[1] = "body" /\ Top.mode = "run" =>
             \E i \in DOMAIN trace : trace[i] = <<"pre", Appended[2], Appended[3]>>
       /\ Appended[1] = "post" =>
             trace[Len(trace)] = <<"body", Appended[2], Appended[3]>>]_vars

\* The parts named in the current execute() call that have a direct
\* dependency outside the named parts.
NamedWithOutsideDependency ==
    {p \in request.names \cap Defined : get_dependencies(p, FALSE) \ request.names # {}}

IsPrefix(s, t) == Len(s) <= Len(t) /\ SubSeq(t, 1, Len(s)) = s

\* C16: once the global state has been saved with a grade, no step changes
\* the grade or sets it again, and the saved build packages and build snaps
\* only grow at their end.
C16_GradeSetOnce ==
    [][global_state.saved =>
         /\ global_state'.saved
         /\ global_state.required_grade # "None" =>
               /\ global_state'.required_grade = global_state.required_grade
               /\ global_state'.grade_set_in = global_state.grade_set_in
         /\ IsPrefix(global_state.build_packages, global_state'.build_packages)
         /\ IsPrefix(global_state.build_snaps, global_state'.build_snaps)]_vars

\* Three execute() calls have been made; the first recorded the grade, and
\* the calls added make and then gcc to the build packages.
C16_Witness ==
    /\ runs = 3
    /\ global_state.saved
    /\ global_state.required_grade = "devel"
    /\ global_state.grade_set_in = 1
    /\ global_state.build_packages = <<"make", "gcc">>

\* partbuilderctl was started for one of the four steps with both fifo
\* variables defined.
StepCommand == ctl.cmd \in {"pull", "build", "stage", "prime"} /\ FifoVariables \subseteq ctl.env

CtlEnded == ctl.pc \in {"returned", "exited", "raised"}

\* The line read from the feedback fifo, without the newline that ends it.
FeedbackLine ==
    LET line == readline(ctl.written)
    IN  IF line # <<>> /\ line[Len(line)] = "\n" THEN SubSeq(line, 1, Len(line) - 1) ELSE line

\* C17: for one of the four commands the helper writes exactly one request
\* to the call fifo and only then reads one line of feedback; an empty
\* feedback line makes it return normally and any non-empty one makes it
\* exit with a failure status.
C17_ScriptletProtocol ==
    StepCommand =>
        /\ ctl.reads <= 1
        /\ ctl.reads = 1 => ctl.calls = <<[function |-> ctl.cmd, args |-> <<>>]>>
        /\ CtlEnded =>
              /\ ctl.reads = 1
              /\ FeedbackLine = <<>> => ctl.exit = "return"
              /\ FeedbackLine # <<>> => ctl.exit = "exit(-1)"

\* What the helper does: the line counts as feedback only if something is
\* left of it once the whitespace around it is removed.
C17_StrippedFeedbackDecides ==
    StepCommand =>
        /\ ctl.reads <= 1
        /\ ctl.reads = 1 => ctl.calls = <<[function |-> ctl.cmd, args |-> <<>>]>>
        /\ CtlEnded =>
              /\ ctl.reads = 1
              /\ (\A i \in DOMAIN FeedbackLine : FeedbackLine[i] \in Whitespace) => ctl.exit = "return"
              /\ (\E i \in DOMAIN FeedbackLine : FeedbackLine[i] \notin Whitespace) => ctl.exit = "exit(-1)"

\* C18: the scan of the same files listed in another order gives the same
\* set of ELF files and the same set of library paths in the dependency
\* closure, the SonameCache being shared by the files of a scan.
C18_ScanOrderIndependent ==
    (elf.scan = 2 /\ elf.pc = "done") =>
        /\ elf.elf_files = elf.first.elf_files
        /\ elf.closure = elf.first.closure

\* The set of ELF files alone does not depend on the order of the list.
C18_ElfFilesOrderIndependent ==
    (elf.scan = 2 /\ elf.pc \in {"load", "done"}) => elf.elf_files = elf.first.elf_files

\* C19: get_elf_files is total: whatever the files of the list are, it does
\* not raise, it goes through the whole list, and it returns the files of
\* the list that are dynamic ELF files.
C19_ScanIsTotal ==
    /\ elf.pc # "raised"
    /\ elf.pc \in {"load", "done"} =>
          /\ elf.i = Len(elf.order) + 1
          /\ elf.elf_files = {f \in Range(elf.order) : needed(f) # {}}

\* Without a file whose attributes cannot be extracted, C19_ScanIsTotal
\* holds.
C19_TotalWithoutCorrupted ==
    (Range(file_list) \cap CorruptedFiles = {}) =>
        /\ elf.pc # "raised"
        /\ elf.pc \in {"load", "done"} =>
              /\ elf.i = Len(elf.order) + 1
              /\ elf.elf_files = {f \in Range(elf.order) : needed(f) # {}}

\* Process k is inside execute(): between its call and its return or raise.
InLifecycle(k) == lifecycles[k].pc \in {"handle", "body"}

\* C20: two lifecycle executions over the same work directory are mutually
\* exclusive: no two processes are inside execute() at the same time, and
\* no step body is run by more than one of them.
C20_MutualExclusion ==
    \A j, k \in Processes :
        j # k =>
            /\ ~(InLifecycle(j) /\ InLifecycle(k))
            /\ lifecycles[j].bodies \cap lifecycles[k].bodies = {}

\* What part p has put at ConflictPath of the stage directory (0: nothing).
StagedAt(p) == IF STAGE \in state_files[p] THEN InstalledAt(p) ELSE 0

C22_CheckBeforeStageBody ==
    /\ [][/\ (Appended[1] \in {"body", "update"} /\ Appended[3] = STAGE) =>
                (CurrentStep(Top) = STAGE /\ Top.checked)
          /\ (/\ status = "running" /\ stack # <<>> /\ Top.ph = "loop"
              /\ Top.ci <= Len(Top.steps) /\ CurrentStep(Top) = STAGE
              /\ check_for_collisions(all_parts) # NoError) =>
                (status' = "raised" /\ stack' = <<>> /\ disk' = disk)]_vars
    /\ []((status = "raised" /\ error.type = "Collision") =>
             (stack = <<>> /\ trace[Len(trace)] = <<"collisions", "", STAGE>>))

\* A run started for a dependency has made its check and staged the
\* dependency, and the check of the top-level run has failed.
C22_Witness ==
    /\ status = "raised"
    /\ error.type = "Collision"
    /\ Cardinality(Events({"collisions"})) >= 2
    /\ \E i \in Events({"body"}) : trace[i][3] = STAGE

\* The last event of the trace that is about part p and step.
LastEventOf(p, step) ==
    LET about == {i \in DOMAIN trace : trace[i][2] = p /\ trace[i][3] = step}
    IN  IF about = {} THEN "none"
        ELSE trace[CHOOSE i \in about : \A j \in about : j <= i][1]

\* C23: a step that is executed again after a clean (explicit re-run, dirty,
\* outdated without updater) has its body bracketed by the pre-step and
\* post-step callbacks as on a first execution: the callbacks of the part
\* and step are the last thing before the body, and the body of a step is
\* followed by its post-step callbacks before anything else is done.
C23_RerunBracketedByHooks ==
    [][/\ Appended[1] = "body" => LastEventOf(Appended[2], Appended[3]) = "pre"
       /\ (trace # <<>> /\ trace[Len(trace)][1] = "body" /\ Len(trace') = Len(trace) + 1) =>
             Appended = <<"post", trace[Len(trace)][2], trace[Len(trace)][3]>>]_vars

\* With the hooks given as dicts, the body of a step that had not run is
\* bracketed in this way.
C23_FirstRunBracketed ==
    [][(hooks = "dict" /\ status = "running" /\ stack # <<>> /\ Top.mode = "run") =>
          /\ Appended[1] = "body" => LastEventOf(Appended[2], Appended[3]) = "pre"
          /\ (trace # <<>> /\ trace[Len(trace)][1] = "body" /\ Len(trace') = Len(trace) + 1) =>
                Appended = <<"post", trace[Len(trace)][2], trace[Len(trace)][3]>>]_vars

\* C24: on the cache-miss path the runs for the dependencies come before
\* the pre-step callbacks of the part: the body of a step that had not run
\* directly follows the pre-step callbacks of that part and step, with no
\* body, callback, clean or update of any part in between.
C24_NothingBetweenPreAndBody ==
    [][(Appended[1] = "body" /\ Top.mode = "run") =>
          trace[Len(trace)] = <<"pre", Appended[2], Appended[3]>>]_vars

\* What holds instead: the pre-step callbacks of the part precede its body,
\* and the events between them belong to the runs for its dependencies.
C24_PreBeforeDependencies ==
    [][(Appended[1] = "body" /\ Top.mode = "run") =>
          \E i \in DOMAIN trace :
              /\ trace[i] = <<"pre", Appended[2], Appended[3]>>
              /\ \A j \in (i + 1)..Len(trace) :
                     /\ trace[j][2] \in get_dependencies(Appended[2], TRUE) \cup {""}
                     /\ trace[j][3] <= STAGE]_vars

\* C25: on the cache-miss path the step is recorded as run (state written,
\* cache updated, steps_were_run set) only after its post-step callbacks
\* have been invoked: nothing is recorded while they are still to come, and
\* a failing post-step callback leaves the step not recorded as run.
C25_RecordedAfterPostHooks ==
    /\ [](( status = "running" /\ stack # <<>> /\ Top.ph = "post") =>
             /\ CurrentStep(Top) \notin state_files[CurrentPart(Top)]
             /\ CurrentStep(Top) \notin cache[CurrentPart(Top)])
    /\ [][Appended[1] = "hookfailed" => Appended[3] \notin state_files'[Appended[2]]]_vars

\* What holds instead: when the post-step callbacks are invoked the step is
\* already recorded, and it stays recorded when one of them raises.
C25_RecordedBeforePostHooks ==
    /\ [](( status = "running" /\ stack # <<>> /\ Top.ph = "post") =>
             /\ CurrentStep(Top) \in state_files[CurrentPart(Top)]
             /\ CurrentStep(Top) \in cache[CurrentPart(Top)]
             /\ steps_were_run)
    /\ [][Appended[1] = "hookfailed" =>
             (status' = "raised" /\ Appended[3] \in state_files'[Appended[2]])]_vars

\* A post-step callback of the build step has raised.
C25_HookFailed ==
    /\ status = "raised" /\ error.type = "HookError"
    /\ trace[Len(trace)][1] = "hookfailed" /\ trace[Len(trace)][3] = BUILD

\* C26: explicit re-run.  When part names were given, the part is among
\* them and the step that is the requested one already has state, handling
\* the step cleans it: the state of the step and of every later step of the
\* part is deleted, the part's earlier steps and the other parts keep theirs,
\* and the step is set to run again; and when the body of a step that is run
\* again completes, the part has state for that step and every earlier one
\* and for no later step.
C26_ExplicitRerun ==
    [][/\ ( /\ status = "running" /\ stack # <<>> /\ Top.ph = "handle"
            /\ Top.names # {} /\ CurrentPart(Top) \in Top.names /\ CurrentStep(Top) = Top.step
            /\ CurrentStep(Top) \in state_files[CurrentPart(Top)] ) =>
              /\ Appended = <<"clean", CurrentPart(Top), CurrentStep(Top)>>
              /\ state_files' = [state_files EXCEPT ![CurrentPart(Top)] = {s \in @ : s < CurrentStep(Top)}]
              /\ stack' = SetTop([Top EXCEPT !.ph = "prepare", !.mode = "rerun"])
              /\ status' = "running"
       /\ (Appended[1] = "body" /\ Top.mode = "rerun") =>
              /\ LastEventOf(Appended[2], Appended[3]) = "clean"
              /\ state_files' = [state_files EXCEPT ![Appended[2]] = {s \in STEPS : s <= Appended[3]}]]_vars

\* pull of part a is run again on request after a call that had built it:
\* the build state of a is gone, its pull state is new.
C26_Witness ==
    /\ status = "done"
    /\ request.step = PULL /\ request.names = {"a"}
    /\ prev.status = "done" /\ prev.step >= BUILD
    /\ \E i, j \in DOMAIN trace : i < j /\ trace[i] = <<"clean", "a", PULL>> /\ trace[j] = <<"body", "a", PULL>>
    /\ state_files["a"] = {PULL}

\* C27: a step that has run and is up to date is cleaned and run again only
\* when execute() was given part names, the part is among them and the step
\* is the step execute() was asked for; with no part names, and for the
\* other steps, handling it changes no state.
C27_RerunOnlyWhenRequested ==
    [][( /\ status = "running" /\ stack # <<>> /\ Top.ph = "handle"
         /\ CurrentStep(Top) \in cache[CurrentPart(Top)]
         /\ get_dirty_report(CurrentPart(Top), CurrentStep(Top)) = {}
         /\ ~get_outdated_report(CurrentPart(Top), CurrentStep(Top))
         /\ ~( /\ request.names # {}
               /\ CurrentPart(Top) \in request.names
               /\ CurrentStep(Top) = request.step ) ) =>
            /\ Appended = <<"skip", CurrentPart(Top), CurrentStep(Top)>>
            /\ disk' = disk /\ cache' = cache]_vars

\* What holds instead is the same of each run(): the names and the step are
\* those the run() that handles the step was called with, be it by execute()
\* or by _prepare_step for the dependencies of a part.
C27_RerunOnlyWhenRequestedOfRun ==
    [][( /\ status = "running" /\ stack # <<>> /\ Top.ph = "handle"
         /\ CurrentStep(Top) \in cache[CurrentPart(Top)]
         /\ get_dirty_report(CurrentPart(Top), CurrentStep(Top)) = {}
         /\ ~get_outdated_report(CurrentPart(Top), CurrentStep(Top)) ) =>
            IF Top.names # {} /\ CurrentPart(Top) \in Top.names /\ CurrentStep(Top) = Top.step
            THEN Appended = <<"clean", CurrentPart(Top), CurrentStep(Top)>>
            ELSE /\ Appended = <<"skip", CurrentPart(Top), CurrentStep(Top)>>
                 /\ disk' = disk /\ cache' = cache]_vars

\* build of part a in an empty work directory has staged c for b, and then
\* cleaned the stage step of c and run it again.
C27_DependencyRestaged ==
    /\ runs = 1 /\ request.step = BUILD /\ request.names = {"a"}
    /\ \E i, j, k \in DOMAIN trace :
          /\ i < j /\ j < k
          /\ trace[i] = <<"body", "c", STAGE>>
          /\ trace[j] = <<"clean", "c", STAGE>>
          /\ trace[k] = <<"body", "c", STAGE>>

\* C28: a dirty or outdated step never makes the lifecycle fail with a
\* step-outdated error.  For every step, Pull included, handling a step
\* that is dirty cleans it and sets it to run again, handling a step that
\* is outdated sets it to be updated in place when the part has the updater
\* and cleans it to run again when not, and the run goes on in both cases;
\* no execute() ends with the step-outdated error.
C28_NoStepOutdatedError ==
    /\ [][( /\ status = "running" /\ stack # <<>> /\ Top.ph = "handle"
            /\ CurrentStep(Top) \in cache[CurrentPart(Top)]
            /\ ~(Top.names # {} /\ CurrentPart(Top) \in Top.names /\ CurrentStep(Top) = Top.step) ) =>
               /\ get_dirty_report(CurrentPart(Top), CurrentStep(Top)) # {} =>
                     /\ status' = "running"
                     /\ Appended = <<"clean", CurrentPart(Top), CurrentStep(Top)>>
                     /\ stack' = SetTop([Top EXCEPT !.ph = "prepare", !.mode = "rerun"])
               /\ ( /\ get_dirty_report(CurrentPart(Top), CurrentStep(Top)) = {}
                    /\ get_outdated_report(CurrentPart(Top), CurrentStep(Top)) ) =>
                     /\ status' = "running"
                     /\ stack' = SetTop([Top EXCEPT !.ph = "prepare",
                                                    !.mode = IF CurrentStep(Top) \in updaters THEN "update" ELSE "rerun"])
                     /\ CurrentStep(Top) \notin updaters => Appended = <<"clean", CurrentPart(Top), CurrentStep(Top)>>]_vars
    /\ [](error.type # "StepOutdatedError" /\ error.args # <<"partbuilder.errors", "StepOutdatedError">>)

\* After a change of a pull property the pull step of a part, dirty, has
\* been cleaned and run again, and the call has ended without error.
C28_Witness ==
    /\ status = "done"
    /\ request.names = {}
    /\ \E p \in Defined :
          /\ <<"properties", p, PULL>> \in request.changed
          /\ \E i, j \in DOMAIN trace : i < j /\ trace[i] = <<"clean", p, PULL>> /\ trace[j] = <<"body", p, PULL>>

\* The step being handled has run, is not dirty and is outdated.
OutdatedVisit ==
    /\ status = "running" /\ stack # <<>> /\ Top.ph = "handle"
    /\ CurrentStep(Top) \in cache[CurrentPart(Top)]
    /\ get_dirty_report(CurrentPart(Top), CurrentStep(Top)) = {}
    /\ get_outdated_report(CurrentPart(Top), CurrentStep(Top))

\* The step being handled is the step the run was called for, of a part the
\* run was called with.
RequestedOfRun ==
    Top.names # {} /\ CurrentPart(Top) \in Top.names /\ CurrentStep(Top) = Top.step

\* The updater of a step has run: the step is recorded as run again, its
\* inputs are no longer newer than its state, and no state was deleted.
UpdatedInPlace ==
    Appended[1] = "update" =>
        /\ Top.mode = "update"
        /\ LastEventOf(Appended[2], Appended[3]) # "clean"
        /\ state_files' = state_files
        /\ Appended[3] \in state_files'[Appended[2]]
        /\ Appended[3] \in cache'[Appended[2]]
        /\ steps_were_run'
        /\ ~inputs_changed'[Appended[2]][Appended[3]]

\* C29 as stated: handling a step that is outdated, not dirty, of a part that
\* has the updater for it deletes no state and sets the step to be updated
\* in place; only without the updater is the step cleaned to run again.
C29_OutdatedUpdatedInPlace ==
    [][/\ OutdatedVisit =>
             IF CurrentStep(Top) \in updaters
             THEN /\ disk' = disk /\ cache' = cache /\ trace' = trace
                  /\ stack' = SetTop([Top EXCEPT !.ph = "prepare", !.mode = "update"])
             ELSE Appended = <<"clean", CurrentPart(Top), CurrentStep(Top)>>
       /\ UpdatedInPlace]_vars

\* C29: the same of the outdated steps that are not the requested step of a
\* part the run was called with; those are cleaned and run again whether or
\* not the part has the updater.
C29_UpdatedInPlaceUnlessRequested ==
    [][/\ (OutdatedVisit /\ ~RequestedOfRun) =>
             IF CurrentStep(Top) \in updaters
             THEN /\ disk' = disk /\ cache' = cache /\ trace' = trace
                  /\ stack' = SetTop([Top EXCEPT !.ph = "prepare", !.mode = "update"])
             ELSE Appended = <<"clean", CurrentPart(Top), CurrentStep(Top)>>
       /\ (OutdatedVisit /\ RequestedOfRun) =>
             Appended = <<"clean", CurrentPart(Top), CurrentStep(Top)>>
       /\ UpdatedInPlace]_vars

\* The build step of a staged part, its inputs touched, has just been
\* updated in place: the part still has its stage state.
C29_Witness ==
    /\ status = "running"
    /\ trace # <<>>
    /\ \E p \in Defined :
          /\ trace[Len(trace)] = <<"update", p, BUILD>>
          /\ <<"inputs", p, BUILD>> \in request.changed
          /\ STAGE \in state_files[p]

\* What handling the current step of the current part does, read from the
\* step taken: "run" (pre-step callbacks, or the TypeError of hooks given as
\* lists), "rerun" (clean), "update", "skip".
Outcome ==
    IF Appended[1] = "pre" \/ (status' = "raised" /\ error'.type = "TypeError") THEN "run"
    ELSE IF Appended[1] = "clean" THEN "rerun"
    ELSE IF Appended[1] = "skip" THEN "skip"
    ELSE IF stack' = SetTop([Top EXCEPT !.ph = "prepare", !.mode = "update"]) THEN "update"
    ELSE "none"

\* C30: each visit of a (part, current_step) pair takes one outcome, chosen
\* in this priority: not yet run, run; requested, clean and re-run, whatever
\* the detectors say; dirty, clean and re-run, outdated or not; outdated,
\* update in place with the updater and clean and re-run without; otherwise
\* skip.  The visit appends at most the one event of its outcome.
C30_OutcomeByPriority ==
    [][(status = "running" /\ stack # <<>> /\ Top.ph = "handle") =>
          /\ Len(trace') <= Len(trace) + 1
          /\ Outcome =
                IF CurrentStep(Top) \notin cache[CurrentPart(Top)] THEN "run"
                ELSE IF Top.names # {} /\ CurrentStep(Top) = Top.step /\ CurrentPart(Top) \in Top.names THEN "rerun"
                ELSE IF get_dirty_report(CurrentPart(Top), CurrentStep(Top)) # {} THEN "rerun"
                ELSE IF get_outdated_report(CurrentPart(Top), CurrentStep(Top))
                     THEN (IF CurrentStep(Top) \in updaters THEN "update" ELSE "rerun")
                ELSE "skip"]_vars

\* A step that was both dirty and outdated, of a part that has the updater
\* for it, has been cleaned.
C30_Witness ==
    /\ status = "running"
    /\ trace # <<>>
    /\ trace[Len(trace)][1] = "clean"
    /\ \E p \in Defined, step \in updaters :
          /\ trace[Len(trace)] = <<"clean", p, step>>
          /\ <<"inputs", p, step>> \in request.changed
          /\ <<"properties", p, step>> \in request.changed
          /\ request.names = {}

\* A step that was requested, dirty and outdated at once has been cleaned.
C30_RequestedDirtyOutdated ==
    /\ status = "running"
    /\ trace # <<>>
    /\ \E step \in updaters :
          /\ trace[Len(trace)] = <<"clean", "a", step>>
          /\ <<"inputs", "a", step>> \in request.changed
          /\ <<"properties", "a", step>> \in request.changed
          /\ request.names = {"a"} /\ request.step = step

\* The steps of part p from step on.
FromStep(step) == {s \in STEPS : s >= step}

\* C31: a re-run is clean-then-execute and is not atomic.  From the clean
\* until the body of the step being re-run completes, the part has no state
\* for the step and the later steps, in whatever run for dependencies the
\* executor is meanwhile; and when the body fails, nothing is written or
\* restored: the exception leaves execute() with that state still removed.
C31_RerunNotAtomic ==
    /\ [](status = "running" =>
            \A i \in DOMAIN stack :
                (stack[i].mode = "rerun" /\ stack[i].ph \in {"prepare", "body"}) =>
                    state_files[CurrentPart(stack[i])] \cap FromStep(CurrentStep(stack[i])) = {})
    /\ [][(Appended[1] = "failed" /\ Top.mode = "rerun") =>
            /\ disk' = disk
            /\ state_files'[Appended[2]] \cap FromStep(Appended[3]) = {}
            /\ status' = "raised"]_vars
    /\ []((status = "raised" /\ trace # <<>> /\ trace[Len(trace)][1] = "failed"
           /\ LastEventOf(trace[Len(trace)][2], trace[Len(trace)][3]) = "failed"
           /\ \E i \in DOMAIN trace : trace[i] = <<"clean", trace[Len(trace)][2], trace[Len(trace)][3]>>) =>
             state_files[trace[Len(trace)][2]] \cap FromStep(trace[Len(trace)][3]) = {})

\* After a call that had built part a and more, the build step of a was
\* cleaned to run again and its body failed: a is left without build state.
C31_Witness ==
    /\ status = "raised" /\ error.type = "StepError"
    /\ prev.status = "done" /\ prev.step >= STAGE
    /\ \E i \in DOMAIN trace : trace[i] = <<"clean", "a", BUILD>>
    /\ trace[Len(trace)] = <<"failed", "a", BUILD>>
    /\ state_files["a"] = {PULL}

\* What part p has in the shared prime directory at the path the parts may
\* share: its staged content once its prime step has run.
PrimedAt(p) == IF PRIME \in state_files[p] THEN InstalledAt(p) ELSE 0

CalledWithUndefinedName == runs' = runs + 1 /\ Undefined(request'.names) # {}

\* C33: running a step with a part name that is not defined fails with an
\* error naming that part, before any step body, callback or collision
\* check is executed and without changing any step state.
C33_UndefinedNameError ==
    [][CalledWithUndefinedName =>
          /\ status' = "raised"
          /\ error'.type = "SnapcraftEnvironmentError"
          /\ error'.args # <<>> /\ error'.args[1] \in Undefined(request'.names)
          /\ trace' = <<>>
          /\ disk' = disk]_vars

\* What holds of it: the call fails before anything is executed and without
\* changing any step state, with an error that does not name the part.
C33_FailsBeforeAnyStep ==
    [][CalledWithUndefinedName =>
          /\ status' = "raised"
          /\ stack' = <<>>
          /\ error' = [type |-> "AttributeError", args |-> <<"partbuilder.errors", "SnapcraftEnvironmentError">>]
          /\ trace' = <<>>
          /\ disk' = disk]_vars

\* The `after` relation of the manager: <<p, q>> when p is after q.
AfterRelation == {<<p, q>> \in Defined \X PartNames : q \in Range(AfterOf(after_requests, p))}

\* The transitive closure of a relation, node by node (Warshall).
RECURSIVE Closure(_, _)
Closure(R, nodes) ==
    IF nodes = {} THEN R
    ELSE LET k == CHOOSE n \in nodes : TRUE
             R1 == Closure(R, nodes \ {k})
         IN  R1 \cup {<<p, q>> \in PartNames \X PartNames : <<p, k>> \in R1 /\ <<k, q>> \in R1}

\* C34: in a constructed manager (its graph is acyclic)
\* get_dependencies(p, recursive=True) is the transitive closure of the
\* after relation from p, get_dependencies(p) is the relation itself, and
\* get_reverse_dependencies is the inverse for either value of recursive.
C34_DependenciesClosureAndInverse ==
    ctor = "constructed" =>
        /\ \A p \in Defined :
              /\ get_dependencies(p, TRUE) = {q \in PartNames : <<p, q>> \in Closure(AfterRelation, PartNames)}
              /\ get_dependencies(p, FALSE) = {q \in PartNames : <<p, q>> \in AfterRelation}
        /\ \A p, q \in Defined : \A r \in BOOLEAN :
              q \in get_reverse_dependencies(p, r) <=> p \in get_dependencies(q, r)

\* A constructed manager whose parts form a chain: a part reaches, and is
\* reached from, a part it is not directly after.
C34_Witness ==
    /\ ctor = "constructed"
    /\ \E p, q \in Defined :
          /\ q \in get_dependencies(p, TRUE) \ get_dependencies(p, FALSE)
          /\ p \in get_reverse_dependencies(q, TRUE) \ get_reverse_dependencies(q, FALSE)

\* C38: whenever a pre-step or post-step callback is invoked, the PartData
\* it receives identifies the part and step being executed: part, step,
\* part_build_dir and part_install_dir are those of that part and step,
\* also after a run for dependencies has invoked callbacks for other parts.
C38_HandleIdentifiesPartAndStep ==
    [][Appended[1] \in {"pre", "post", "hookfailed"} =>
          /\ config'.part = Appended[2]
          /\ config'.step = Appended[3]
          /\ config'.part_build_dir = part_build_dir(Appended[2])
          /\ config'.part_install_dir = part_install_dir(Appended[2])]_vars

\* What holds: part, step and part_build_dir are those of the part and
\* step, and the handle has no part_install_dir at all.
C38_PartStepAndBuildDir ==
    /\ [][Appended[1] \in {"pre", "post", "hookfailed"} =>
            /\ config'.part = Appended[2]
            /\ config'.step = Appended[3]
            /\ config'.part_build_dir = part_build_dir(Appended[2])]_vars
    /\ [](config.part_install_dir = NoAttribute)

\* The post-step callbacks of a part are invoked after a run for its
\* dependencies has invoked callbacks for another part since its pre-step
\* callbacks.
C38_AfterNestedRun ==
    /\ trace # <<>>
    /\ trace[Len(trace)][1] = "post"
    /\ \E i, j \in DOMAIN trace :
          /\ i < j
          /\ trace[i] = <<"pre", trace[Len(trace)][2], trace[Len(trace)][3]>>
          /\ trace[j][1] \in {"pre", "post"} /\ trace[j][2] # trace[Len(trace)][2]
    /\ config.part = trace[Len(trace)][2]

\* What build_env_for_part collects before it removes the duplicates: the
\* part's own entries, then for each dependency the dependency's plugin
\* environment for the stage directory and what the dependency collects.
RECURSIVE Collected(_, _)
RECURSIVE CollectedOfDependencies(_)
CollectedOfDependencies(dep_parts) ==
    IF dep_parts = <<>> THEN <<>>
    ELSE part_env(Head(dep_parts), stage_dir)
            \o Collected(Head(dep_parts), FALSE)
            \o CollectedOfDependencies(Tail(dep_parts))

Collected(p, root_part) == OwnEnv(p, root_part) \o CollectedOfDependencies(deps[p])

\* The entries of a list at their first occurrence, in the order of the list.
FirstOccurrences(s) ==
    LET first == {i \in DOMAIN s : \A j \in 1..(i - 1) : s[j] # s[i]}
        nth(k) == CHOOSE i \in first : Cardinality({j \in first : j <= i}) = k
    IN  [k \in 1..Cardinality(first) |-> s[nth(k)]]

\* C35: the list build_env_for_part returns has no duplicate entries and
\* keeps the entries collected in the order of their first occurrence; the
\* root part's own entries come before every other entry; and the declared
\* build-environment entries in it are those of the root part.
C35_BuildEnv ==
    env_call.pc = "returned" =>
        LET env == env_call.env
            own == Range(OwnEnv(env_call.part, TRUE))
        IN  /\ \A i, j \in DOMAIN env : env[i] = env[j] => i = j
            /\ env = FirstOccurrences(Collected(env_call.part, TRUE))
            /\ \A i, j \in DOMAIN env : (env[i] \in own /\ env[j] \notin own) => i < j
            /\ own \subseteq Range(env)
            /\ \A e \in Range(env) :
                  e.kind = "declared" => e.text \in Range(env_call.build_environment[env_call.part])

\* The list returned for a part whose dependencies contributed the same
\* entries more than once, and declare entries the part does not.
C35_Witness ==
    /\ env_call.pc = "returned"
    /\ Len(env_call.env) < Len(Collected(env_call.part, TRUE))
    /\ \E d \in get_dependencies(env_call.part, TRUE) :
          /\ env_call.plugin[d] # "nil"
          /\ Range(env_call.build_environment[d]) \ Range(env_call.build_environment[env_call.part]) # {}
    /\ env_call.build_environment[env_call.part] # <<>>

\* C36: reset_except_root(root) keeps exactly the entries whose path is not
\* None and starts with root, each with its key and its value, and drops
\* every other entry; a second call with the same root changes nothing.
C36_ResetExceptRoot ==
    library_cache.pc = "reset" =>
        LET before == library_cache.before
            after == library_cache.cache
            root == library_cache.root
            UnderRoot(value) == \A i \in 1..Len(root) : i <= Len(value) /\ value[i] = root[i]
        IN  /\ DOMAIN after = {key \in DOMAIN before : before[key] # None /\ UnderRoot(before[key])}
            /\ \A key \in DOMAIN after : after[key] = before[key]
            /\ reset_except_root(after, root) = after

\* A reset that met an entry of None, dropped an entry with a path, and kept
\* an entry.
C36_Witness ==
    /\ library_cache.pc = "reset"
    /\ \E k1, k2, k3 \in DOMAIN library_cache.before :
          /\ library_cache.before[k1] = None
          /\ k2 \in DOMAIN library_cache.cache
          /\ k3 \notin DOMAIN library_cache.cache /\ library_cache.before[k3] # None

\* C37: a Library that has been created left its path in the cache under its
\* (arch, soname); when the cache had the key, the path is the cached one,
\* whatever the loader's path and the search paths; and an entry stays as it
\* is until reset_except_root removes it.
C37_LibraryPathCached ==
    /\ [](library_cache.pc = "library" =>
            LET key == <<library_cache.library.arch, library_cache.library.soname>>
            IN  /\ key \in DOMAIN library_cache.cache
                /\ library_cache.cache[key] = library_cache.library.path
                /\ key \in DOMAIN library_cache.before =>
                       library_cache.library.path = library_cache.before[key])
    /\ [][library_cache'.pc # "reset" =>
            \A key \in DOMAIN library_cache.cache :
                /\ key \in DOMAIN library_cache'.cache
                /\ library_cache'.cache[key] = library_cache.cache[key]]_vars

\* A Library whose path is the cached one and not the one it would have
\* found with an empty cache.
C37_Witness ==
    /\ library_cache.pc = "library"
    /\ <<library_cache.library.arch, library_cache.library.soname>> \in DOMAIN library_cache.before
    /\ library_cache.library.path # library_cache.library.soname_path
    /\ library_cache.library.path \notin LibraryFiles

\* The steps of the executor, execute() left out.
ExecutorStep ==
    \/ BeginStep
    \/ ReturnFromRun
    \/ RunStep
    \/ ExplicitRerun
    \/ HandleDirty
    \/ SkipStep
    \/ PrepareStep
    \/ StepBody
    \/ PostHooks

\* The executor goes on while it can: step bodies terminate.
FairNested == SpecNested /\ WF_vars(ExecutorStep)

\* C39, termination: a run that has started ends, run() having returned to
\* execute() or an exception having left it.
C39_RunTerminates == (status = "running") ~> (status # "running")

\* C39: within the first execute() in a work directory without state, each
\* (part, step) body is executed at most once.
C39_BodyAtMostOnce ==
    runs = 1 =>
        \A i, j \in DOMAIN trace :
            (trace[i][1] = "body" /\ trace[j][1] = "body"
             /\ trace[i][2] = trace[j][2] /\ trace[i][3] = trace[j][3]) => i = j

====
